---------------------------- MODULE Spec2Model ----------------------------
(***************************************************************************)
(* Model of the context relevance and insight extraction engine             *)
(* (backend/ai/context_analyzer.py) and of the document list it reads       *)
(* (backend/context_gatherer.py).                                           *)
(*                                                                          *)
(* Text is a sequence of one-character strings, so that substring search,   *)
(* lower-casing, splitting and slicing are computed as the code computes    *)
(* them.  A relevance score is an integer number of thousandths; every      *)
(* score literal of the code is a multiple of ten, and the last digit       *)
(* records the IEEE-754 rounding direction of 0.5 - days_old * 0.05         *)
(* relative to the nearest two-decimal literal (Tier3Rounding).             *)
(***************************************************************************)
EXTENDS Integers, Sequences, FiniteSets, TLC

(***************************************************************************)
(* Strings                                                                  *)
(***************************************************************************)
\* Text is made of the characters U+0000..U+00FF.  str.lower() changes the
\* letters A..Z and the cased letters of U+00C0..U+00DE, each to one character.
UpperToLower ==
    "A" :> "a" @@ "B" :> "b" @@ "C" :> "c" @@ "D" :> "d" @@ "E" :> "e" @@ "F" :> "f" @@ "G" :> "g" @@ "H" :> "h" @@ "I" :> "i" @@ "J" :> "j" @@ "K" :> "k" @@ "L" :> "l" @@ "M" :> "m" @@
    "N" :> "n" @@ "O" :> "o" @@ "P" :> "p" @@ "Q" :> "q" @@ "R" :> "r" @@ "S" :> "s" @@ "T" :> "t" @@ "U" :> "u" @@ "V" :> "v" @@ "W" :> "w" @@ "X" :> "x" @@ "Y" :> "y" @@ "Z" :> "z" @@
    "À" :> "à" @@ "Á" :> "á" @@ "Â" :> "â" @@ "Ã" :> "ã" @@ "Ä" :> "ä" @@ "Å" :> "å" @@ "Æ" :> "æ" @@ "Ç" :> "ç" @@ "È" :> "è" @@ "É" :> "é" @@ "Ê" :> "ê" @@ "Ë" :> "ë" @@ "Ì" :> "ì" @@ "Í" :> "í" @@ "Î" :> "î" @@
    "Ï" :> "ï" @@ "Ð" :> "ð" @@ "Ñ" :> "ñ" @@ "Ò" :> "ò" @@ "Ó" :> "ó" @@ "Ô" :> "ô" @@ "Õ" :> "õ" @@ "Ö" :> "ö" @@ "Ø" :> "ø" @@ "Ù" :> "ù" @@ "Ú" :> "ú" @@ "Û" :> "û" @@ "Ü" :> "ü" @@ "Ý" :> "ý" @@ "Þ" :> "þ"

Lower(c) == IF c \in DOMAIN UpperToLower THEN UpperToLower[c] ELSE c

\* str.lower()
LowerStr(s) == SubSeq([i \in 1..Len(s) |-> Lower(s[i])], 1, Len(s))

\* s[i..] starts with p (1-based i)
MatchAt(s, i, p) ==
    /\ i >= 1
    /\ i + Len(p) - 1 <= Len(s)
    /\ \A j \in 1..Len(p) : s[i + j - 1] = p[j]

\* Python: p in s
Contains(s, p) ==
    \E i \in 1..(Len(s) - Len(p) + 1) : \A j \in 1..Len(p) : s[i + j - 1] = p[j]

\* Python: s.find(p), 1-based; 0 when absent
Find(s, p) ==
    IF Contains(s, p)
    THEN CHOOSE i \in 1..(Len(s) - Len(p) + 1) :
            /\ MatchAt(s, i, p)
            /\ \A k \in 1..(i - 1) : ~MatchAt(s, k, p)
    ELSE 0

\* the characters str.strip() removes: U+0009..U+000D, U+001C..U+0020,
\* U+0085 and U+00A0
Whitespace ==
    {"\t", "\n", "", "\f", "\r", "", "", "", "", " ", "", " "}

\* str.strip()
Strip(s) ==
    LET keep == {i \in 1..Len(s) : s[i] \notin Whitespace}
    IN  IF keep = {} THEN <<>>
        ELSE LET lo == CHOOSE i \in keep : \A k \in keep : i <= k
                 hi == CHOOSE i \in keep : \A k \in keep : i >= k
             IN  SubSeq(s, lo, hi)

\* Python slice s[start:end] with 0-based start, exclusive end, both in range
Slice(s, start, end) == SubSeq(s, start + 1, end)

Max(a, b) == IF a >= b THEN a ELSE b
Min(a, b) == IF a <= b THEN a ELSE b

\* number of elements of the list kws that occur in s (duplicates counted)
CountIn(kws, s) == Cardinality({k \in 1..Len(kws) : Contains(s, kws[k])})

\* any(kw in s for kw in kws)
AnyIn(kws, s) == \E k \in 1..Len(kws) : Contains(s, kws[k])

\* re.split(sep-class, s): the pieces between the characters of seps
RECURSIVE SplitOn(_, _)
SplitOn(s, seps) ==
    LET cut == {i \in 1..Len(s) : s[i] \in seps}
    IN  IF cut = {} THEN <<s>>
        ELSE LET i == CHOOSE c \in cut : \A d \in cut : c <= d
             IN  <<SubSeq(s, 1, i - 1)>> \o SplitOn(SubSeq(s, i + 1, Len(s)), seps)

(***************************************************************************)
(* Keyword tables of ContextAnalyzer                                        *)
(***************************************************************************)
HEALTH_KEYWORDS ==
    <<<<"s","i","c","k">>, <<"i","l","l">>, <<"n","o","t"," ","f","e","e","l","i","n","g"," ","w","e","l","l">>,
       <<"u","n","d","e","r"," ","t","h","e"," ","w","e","a","t","h","e","r">>, <<"d","o","c","t","o","r">>, <<"a","p","p","o","i","n","t","m","e","n","t">>,
       <<"m","e","d","i","c","a","l">>, <<"h","e","a","l","t","h"," ","i","s","s","u","e">>, <<"b","a","c","k"," ","p","a","i","n">>,
       <<"m","i","g","r","a","i","n","e">>, <<"h","e","a","d","a","c","h","e">>, <<"t","i","r","e","d">>,
       <<"e","x","h","a","u","s","t","e","d">>, <<"m","e","n","t","a","l"," ","h","e","a","l","t","h">>, <<"s","t","r","e","s","s">>,
       <<"b","u","r","n","e","d"," ","o","u","t">>, <<"b","u","r","n","o","u","t">>, <<"t","a","k","i","n","g"," ","t","i","m","e"," ","o","f","f">>,
       <<"p","t","o">>, <<"p","e","r","s","o","n","a","l"," ","d","a","y">>, <<"f","a","m","i","l","y"," ","e","m","e","r","g","e","n","c","y">>>>

BLOCKER_KEYWORDS ==
    <<<<"b","l","o","c","k","e","d">>, <<"b","l","o","c","k","e","r">>, <<"b","l","o","c","k","i","n","g">>,
       <<"s","t","u","c","k">>, <<"w","a","i","t","i","n","g"," ","o","n">>, <<"d","e","p","e","n","d","e","n","c","y">>,
       <<"d","e","p","e","n","d","s"," ","o","n">>, <<"c","a","n","'","t"," ","p","r","o","c","e","e","d">>, <<"n","e","e","d"," ","a","p","p","r","o","v","a","l">>,
       <<"d","e","l","a","y","e","d">>, <<"h","o","l","d">>, <<"o","n"," ","h","o","l","d">>,
       <<"p","o","s","t","p","o","n","e","d">>, <<"i","s","s","u","e"," ","w","i","t","h">>, <<"p","r","o","b","l","e","m"," ","w","i","t","h">>,
       <<"f","a","i","l","i","n","g">>, <<"b","r","o","k","e","n">>, <<"d","o","w","n">>,
       <<"o","u","t","a","g","e">>>>

COMMITMENT_KEYWORDS ==
    <<<<"i"," ","w","i","l","l">>, <<"i","'","l","l">>, <<"i"," ","p","r","o","m","i","s","e">>,
       <<"c","o","m","m","i","t","t","e","d"," ","t","o">>, <<"b","y"," ","f","r","i","d","a","y">>, <<"b","y"," ","m","o","n","d","a","y">>,
       <<"b","y"," ","e","n","d"," ","o","f">>, <<"d","e","a","d","l","i","n","e">>, <<"d","u","e"," ","d","a","t","e">>,
       <<"d","e","l","i","v","e","r">>, <<"s","h","i","p">>, <<"c","o","m","p","l","e","t","e">>,
       <<"f","i","n","i","s","h">>, <<"s","e","n","d"," ","y","o","u">>, <<"g","e","t"," ","b","a","c","k"," ","t","o"," ","y","o","u">>,
       <<"f","o","l","l","o","w"," ","u","p">>, <<"a","c","t","i","o","n"," ","i","t","e","m">>, <<"t","o","d","o">>,
       <<"t","o"," ","d","o">>, <<"a","s","s","i","g","n","e","d"," ","t","o"," ","m","e">>>>

QUESTION_KEYWORDS ==
    <<<<"c","a","n"," ","y","o","u">>, <<"c","o","u","l","d"," ","y","o","u">>, <<"w","o","u","l","d"," ","y","o","u">>,
       <<"d","i","d"," ","y","o","u">>, <<"h","a","v","e"," ","y","o","u">>, <<"?">>,
       <<"q","u","e","s","t","i","o","n">>, <<"a","s","k","i","n","g">>, <<"w","o","n","d","e","r","i","n","g">>,
       <<"t","h","o","u","g","h","t","s"," ","o","n">>, <<"o","p","i","n","i","o","n"," ","o","n">>, <<"w","h","a","t"," ","d","o"," ","y","o","u"," ","t","h","i","n","k">>,
       <<"f","e","e","d","b","a","c","k"," ","o","n">>, <<"r","e","v","i","e","w">>>>

SOCIAL_KEYWORDS ==
    <<<<"w","e","e","k","e","n","d">>, <<"h","o","l","i","d","a","y">>, <<"v","a","c","a","t","i","o","n">>,
       <<"p","a","r","t","y">>, <<"b","i","r","t","h","d","a","y">>, <<"l","u","n","c","h">>,
       <<"c","o","f","f","e","e">>, <<"h","a","p","p","y"," ","h","o","u","r">>, <<"h","o","w"," ","a","r","e"," ","y","o","u">>,
       <<"h","o","w","'","s"," ","i","t"," ","g","o","i","n","g">>, <<"c","o","n","g","r","a","t","u","l","a","t","i","o","n","s">>, <<"c","o","n","g","r","a","t","s">>,
       <<"t","h","a","n","k","s"," ","f","o","r">>, <<"t","h","a","n","k"," ","y","o","u"," ","f","o","r">>, <<"g","r","e","a","t"," ","j","o","b">>,
       <<"a","w","e","s","o","m","e">>, <<"n","i","c","e"," ","w","o","r","k">>, <<"w","e","l","l"," ","d","o","n","e">>>>

SENSITIVE_KEYWORDS ==
    <<<<"c","o","n","f","i","d","e","n","t","i","a","l">>, <<"i","n","t","e","r","n","a","l"," ","o","n","l","y">>, <<"d","o"," ","n","o","t"," ","s","h","a","r","e">>,
       <<"p","r","i","v","a","t","e">>, <<"s","a","l","a","r","y">>, <<"c","o","m","p","e","n","s","a","t","i","o","n">>,
       <<"p","e","r","f","o","r","m","a","n","c","e"," ","r","e","v","i","e","w">>, <<"p","i","p">>, <<"t","e","r","m","i","n","a","t","i","o","n">>,
       <<"l","a","y","o","f","f">>, <<"r","e","s","t","r","u","c","t","u","r","i","n","g">>, <<"a","c","q","u","i","s","i","t","i","o","n">>,
       <<"l","e","g","a","l">>, <<"l","a","w","s","u","i","t">>, <<"c","o","m","p","l","a","i","n","t">>,
       <<"h","r"," ","i","s","s","u","e">>, <<"i","n","v","e","s","t","i","g","a","t","i","o","n">>, <<"b","e","t","w","e","e","n"," ","u","s">>,
       <<"o","f","f"," ","t","h","e"," ","r","e","c","o","r","d">>, <<"d","o","n","'","t"," ","t","e","l","l">>, <<"s","e","c","r","e","t">>>>

\* stop_words of _extract_topic_keywords (a set)
stop_words ==
    <<<<"m","e","e","t","i","n","g">>, <<"s","y","n","c">>, <<"r","e","v","i","e","w">>,
       <<"d","i","s","c","u","s","s","i","o","n">>, <<"c","a","l","l">>, <<"c","h","a","t">>,
       <<"w","i","t","h">>, <<"t","h","e">>, <<"a">>,
       <<"a","n">>, <<"a","n","d">>, <<"o","r">>,
       <<"f","o","r">>, <<"t","o">>, <<"o","f">>,
       <<"i","n">>, <<"o","n">>, <<"a","t">>,
       <<"b","y">>, <<"r","e">>, <<"a","b","o","u","t">>,
       <<"w","e","e","k","l","y">>, <<"m","o","n","t","h","l","y">>, <<"d","a","i","l","y">>,
       <<"q","u","a","r","t","e","r","l","y">>, <<"a","n","n","u","a","l">>, <<"t","e","a","m">>,
       <<"1",":","1">>, <<"o","n","e","-","o","n","-","o","n","e">>>>

\* work_indicators of _is_purely_social
work_indicators ==
    <<<<"p","r","o","j","e","c","t">>, <<"d","e","a","d","l","i","n","e">>, <<"t","a","s","k">>,
       <<"w","o","r","k">>, <<"m","e","e","t","i","n","g">>, <<"r","e","v","i","e","w">>,
       <<"c","o","d","e">>, <<"b","u","g">>, <<"f","e","a","t","u","r","e">>,
       <<"r","e","l","e","a","s","e">>, <<"d","e","p","l","o","y">>, <<"s","p","r","i","n","t">>,
       <<"t","i","c","k","e","t">>, <<"i","s","s","u","e">>, <<"p","r">>,
       <<"p","u","l","l"," ","r","e","q","u","e","s","t">>, <<"c","o","m","m","i","t">>>>

\* patterns of _mentions_stress (all literal)
stress_patterns ==
    <<<<"s","t","r","e","s","s","e","d">>, <<"o","v","e","r","w","h","e","l","m","e","d">>, <<"t","o","o"," ","m","u","c","h">>,
       <<"o","v","e","r","l","o","a","d","e","d">>, <<"b","a","n","d","w","i","d","t","h">>, <<"c","a","p","a","c","i","t","y">>,
       <<"s","p","r","e","a","d"," ","t","h","i","n">>, <<"b","e","h","i","n","d"," ","o","n">>, <<"c","a","t","c","h","i","n","g"," ","u","p">>,
       <<"f","a","l","l","i","n","g"," ","b","e","h","i","n","d">>, <<"c","o","n","c","e","r","n","e","d"," ","a","b","o","u","t">>>>


StopWordSet == {stop_words[i] : i \in 1..Len(stop_words)}

(***************************************************************************)
(* RelevanceTier and the score literals                                     *)
(***************************************************************************)
TIER_1_CRITICAL == 1
TIER_2_DYNAMICS == 2
TIER_3_GENERAL == 3
TIER_4_EXCLUDE == 4

\* min(tier, t, key=lambda t: t.value)
MinTier(a, b) == IF a <= b THEN a ELSE b

\* Rounding direction of the double 0.5 - d * 0.05 against the two-decimal
\* literal nearest to it (d = 7 gives 0.14999999999999997, d = 6 gives
\* 0.19999999999999996, d = -7 gives 0.8500000000000001), for the ages
\* -60 <= d <= 7; it is defined for no other age.
Tier3Rounding(d) ==
    CASE d \in {6, 7} -> -1
      [] d \in {-58, -56, -53, -51, -48, -46, -41, -38, -33, -29, -28, -24, -23, -19, -14, -7} -> 1
      [] d \in (-60..5) \ {-58, -56, -53, -51, -48, -46, -41, -38, -33, -29, -28, -24, -23, -19, -14, -7} -> 0

\* 0.5 - (days_old * 0.05), in thousandths
Tier3Score(d) == 500 - (d * 50) + Tier3Rounding(d)

\* a reason string; n is the number an f-string formats into it (0: none)
Reason(text, n) == [text |-> text, n |-> n]

(***************************************************************************)
(* ContextAnalyzer.__init__ and _extract_topic_keywords                     *)
(***************************************************************************)
Digits == {"0", "1", "2", "3", "4", "5", "6", "7", "8", "9"}

\* \w of a str pattern: the letters, the digits and "_"
WordChars ==
    DOMAIN UpperToLower \cup {UpperToLower[c] : c \in DOMAIN UpperToLower} \cup Digits
        \cup {"_", "ª", "²", "³", "µ", "¹", "º", "¼", "½", "¾", "ß", "ÿ"}

\* re.findall(r'\b\w+\b', s): the maximal runs of word characters
RECURSIVE FindWords(_)
FindWords(s) ==
    LET starts == {i \in 1..Len(s) : s[i] \in WordChars}
    IN  IF starts = {} THEN <<>>
        ELSE LET lo == CHOOSE i \in starts : \A k \in starts : i <= k
                 ends == {j \in lo..Len(s) :
                             /\ \A k \in lo..j : s[k] \in WordChars
                             /\ (j = Len(s) \/ s[j + 1] \notin WordChars)}
                 hi == CHOOSE j \in ends : TRUE
             IN  <<SubSeq(s, lo, hi)>> \o FindWords(SubSeq(s, hi + 1, Len(s)))

_extract_topic_keywords(topic) ==
    LET words == FindWords(LowerStr(topic))
    IN  SelectSeq(words, LAMBDA w : w \notin StopWordSet /\ Len(w) > 2)

\* the analyzer after construction: meeting_topic or "", external_attendees or []
NewContextAnalyzer(meeting_topic, external_attendees) ==
    [ meeting_topic |-> meeting_topic,
      has_external_attendees |-> Len(external_attendees) > 0,
      topic_keywords |-> _extract_topic_keywords(meeting_topic) ]

(***************************************************************************)
(* Signal detectors                                                         *)
(***************************************************************************)
\* if not self.topic_keywords: return False; otherwise one count per list
\* entry that occurs in the text
_matches_meeting_topic(self, text) ==
    IF Len(self.topic_keywords) = 0 THEN FALSE
    ELSE LET text_lower == LowerStr(text)
             matches == CountIn(self.topic_keywords, text_lower)
         IN  matches >= Min(2, Len(self.topic_keywords))

\* re.search(prefix + "(" + a1 | a2 | ... + ")", text, re.IGNORECASE)
SearchAlt(text, prefix, alts) ==
    LET t == LowerStr(text)
    IN  \E k \in 1..Len(alts) : Contains(t, prefix \o alts[k])

_has_document_reference(text) ==
    \/ SearchAlt(text, <<"s","e","e"," ","t","h","e"," ">>, <<<<"d","o","c">>, <<"d","o","c","u","m","e","n","t">>, <<"s","p","r","e","a","d","s","h","e","e","t">>, <<"s","l","i","d","e","s">>, <<"d","e","c","k">>, <<"f","i","l","e">>>>)
    \/ SearchAlt(text, <<"a","t","t","a","c","h","e","d"," ">>, <<<<"i","s">>, <<"a","r","e">>, <<"t","h","e">>>>)
    \/ SearchAlt(text, <<>>, <<<<"c","h","e","c","k"," ","o","u","t"," ","t","h","e">>>>)
    \/ SearchAlt(text, <<>>, <<<<"i","'","v","e"," ","s","h","a","r","e","d">>>>)
    \/ SearchAlt(text, <<>>, <<<<"l","i","n","k"," ","t","o"," ","t","h","e">>>>)
    \/ SearchAlt(text, <<>>, <<<<"g","o","o","g","l","e"," ","d","o","c">>>>)
    \/ SearchAlt(text, <<>>, <<<<"c","o","n","f","l","u","e","n","c","e">>>>)
    \/ SearchAlt(text, <<>>, <<<<"n","o","t","i","o","n"," ","p","a","g","e">>>>)
    \/ SearchAlt(text, <<>>, <<<<".","p","d","f">>, <<".","d","o","c","x">>, <<".","x","l","s","x">>, <<".","p","p","t","x">>>>)

_has_action_items(text) ==
    \/ SearchAlt(text, <<>>, <<<<"a","c","t","i","o","n"," ","i","t","e","m">>>>)
    \/ SearchAlt(text, <<>>, <<<<"t","o","d","o",":">>>>)
    \/ SearchAlt(text, <<>>, <<<<"t","o","-","d","o",":">>>>)
    \/ SearchAlt(text, <<>>, <<<<"f","o","l","l","o","w"," ","u","p"," ","o","n">>>>)
    \/ SearchAlt(text, <<>>, <<<<"n","e","e","d"," ","t","o">>>>)
    \/ SearchAlt(text, <<"p","l","e","a","s","e"," ">>, <<<<"d","o">>, <<"c","o","m","p","l","e","t","e">>, <<"f","i","n","i","s","h">>, <<"r","e","v","i","e","w">>, <<"c","h","e","c","k">>>>)
    \/ SearchAlt(text, <<"c","a","n"," ","y","o","u"," ">>, <<<<"p","l","e","a","s","e"," ">>, <<>> >>)
    \/ SearchAlt(text, <<"b","y"," ">>, <<<<"m","o","n","d","a","y">>, <<"t","u","e","s","d","a","y">>, <<"w","e","d","n","e","s","d","a","y">>, <<"t","h","u","r","s","d","a","y">>, <<"f","r","i","d","a","y">>, <<"e","o","d">>, <<"e","o","w">>>>)

_mentions_health(text) == AnyIn(HEALTH_KEYWORDS, LowerStr(text))

_mentions_blocker(text) == AnyIn(BLOCKER_KEYWORDS, LowerStr(text))

_mentions_commitment(text) == AnyIn(COMMITMENT_KEYWORDS, LowerStr(text))

_mentions_stress(text) == SearchAlt(text, <<>>, stress_patterns)

\* r'\?$': a question mark at the end, or before one final newline
EndsWithQuestionMark(text) ==
    LET n == Len(text)
    IN  \/ n >= 1 /\ text[n] = "?"
        \/ n >= 2 /\ text[n] = "\n" /\ text[n - 1] = "?"

_has_unanswered_question(text) ==
    \/ EndsWithQuestionMark(text)
    \/ SearchAlt(text, <<>>, <<<<"@","y","o","u">>, <<"d","i","d"," ","y","o","u">>, <<"c","a","n"," ","y","o","u">>, <<"c","o","u","l","d"," ","y","o","u">>, <<"w","o","u","l","d"," ","y","o","u">>>>)
    \/ SearchAlt(text, <<>>, <<<<"t","h","o","u","g","h","t","s","?">>, <<"o","p","i","n","i","o","n","?">>, <<"f","e","e","d","b","a","c","k","?">>>>)

\* purely social judged by the social keywords alone
IsSocialIgnoringWork(text) == CountIn(SOCIAL_KEYWORDS, LowerStr(text)) > 0

_is_purely_social(text) ==
    LET social_count == CountIn(SOCIAL_KEYWORDS, LowerStr(text))
        work_count == CountIn(work_indicators, LowerStr(text))
    IN  social_count > work_count /\ work_count = 0

_is_sensitive_content(text) == AnyIn(SENSITIVE_KEYWORDS, LowerStr(text))

(***************************************************************************)
(* Item classifier                                                          *)
(***************************************************************************)
\* tier = TIER_4_EXCLUDE; score = 0.0; reasons = []; flags = []
StartState == [tier |-> TIER_4_EXCLUDE, score |-> 0, reasons |-> <<>>, flags |-> <<>>]

\* a rule that adds its score to the running score instead of taking the
\* larger of the two
ProposeSummingScores(hit, s, t, sc, reason, fl) ==
    IF hit
    THEN [ tier |-> MinTier(s.tier, t),
           score |-> s.score + sc,
           reasons |-> Append(s.reasons, reason),
           flags |-> s.flags \o fl ]
    ELSE s

\* if hit: tier = min(tier, t); score = max(score, sc); reasons.append(r);
\* flags.append(f)
Propose(hit, s, t, sc, reason, fl) ==
    IF hit
    THEN [ tier |-> MinTier(s.tier, t),
           score |-> Max(s.score, sc),
           reasons |-> Append(s.reasons, reason),
           flags |-> s.flags \o fl ]
    ELSE s

\* if self._matches_meeting_topic(text): tier = TIER_1_CRITICAL; score = 0.9
TopicRule(hit, s) ==
    IF hit
    THEN [ tier |-> TIER_1_CRITICAL,
           score |-> 900,
           reasons |-> Append(s.reasons, Reason("Directly mentions meeting topic", 0)),
           flags |-> s.flags ]
    ELSE s

\* if days_old <= 7 and tier == TIER_4_EXCLUDE: if not purely social: tier 3
RecentRule(s, text, days_old, what) ==
    IF days_old <= 7 /\ s.tier = TIER_4_EXCLUDE /\ ~_is_purely_social(text)
    THEN [ tier |-> TIER_3_GENERAL,
           score |-> Max(s.score, Tier3Score(days_old)),
           reasons |-> Append(s.reasons, Reason(what, days_old)),
           flags |-> s.flags ]
    ELSE s

\* an age cut-off that compares with >= and so also drops tier-1 items
AgeRuleDroppingCritical(s, days_old, note) ==
    IF days_old > 14 /\ s.tier >= TIER_1_CRITICAL
    THEN [s EXCEPT !.tier = TIER_4_EXCLUDE, !.reasons = @ \o note]
    ELSE s

\* if days_old > 14 and tier.value > TIER_1_CRITICAL.value: tier = TIER_4_EXCLUDE
\* (note: the reasons the branch appends)
AgeRule(s, days_old, note) ==
    IF days_old > 14 /\ s.tier > TIER_1_CRITICAL
    THEN [s EXCEPT !.tier = TIER_4_EXCLUDE, !.reasons = @ \o note]
    ELSE s

\* return AnalyzedItem(item=..., tier=tier, relevance_score=score, ...)
AnalyzedItem(item, s, is_sensitive) ==
    [ item |-> item,
      tier |-> s.tier,
      relevance_score |-> s.score,
      reasons |-> s.reasons,
      flags |-> s.flags,
      is_sensitive |-> is_sensitive ]

\* the exception object an operation ends with instead of a value
Raised(exception) == [raised |-> exception]
IsRaised(result) == "raised" \in DOMAIN result

\* (datetime.utcnow() - email.date).days.  An email's date is [naive,
\* days_ago, seconds]: whether the datetime carries no time zone, and the
\* whole days and the further seconds it lies before the evaluation time.
\* utcnow() is naive, and Python refuses to subtract a zone-aware datetime
\* from it (TypeError).
EmailDateSubtracts(email) == email.date.naive
EmailDaysOld(email) == email.date.days_ago

_analyze_email(self, email) ==
    IF ~EmailDateSubtracts(email) THEN Raised("TypeError") ELSE
    LET text == LowerStr(email.subject \o <<" ">> \o email.body_text)
        s1 == TopicRule(_matches_meeting_topic(self, text), StartState)
        s2 == Propose(Len(email.attachments) > 0, s1, TIER_1_CRITICAL, 850,
                      Reason("Has {n} attachment(s)", Len(email.attachments)), <<>>)
        s3 == Propose(_has_document_reference(text), s2, TIER_1_CRITICAL, 800,
                      Reason("References shared document", 0), <<>>)
        s4 == Propose(_has_action_items(text), s3, TIER_1_CRITICAL, 850,
                      Reason("Contains action items", 0), <<"action_item">>)
        s5 == Propose(_mentions_health(text), s4, TIER_2_DYNAMICS, 750,
                      Reason("Mentions health/availability", 0), <<"health">>)
        s6 == Propose(_mentions_blocker(text), s5, TIER_2_DYNAMICS, 800,
                      Reason("Mentions blocker/dependency", 0), <<"blocker">>)
        s7 == Propose(_mentions_commitment(text), s6, TIER_2_DYNAMICS, 750,
                      Reason("Contains commitment/promise", 0), <<"commitment">>)
        s8 == Propose(_has_unanswered_question(text), s7, TIER_2_DYNAMICS, 700,
                      Reason("Contains unanswered question", 0), <<"question">>)
        s9 == RecentRule(s8, text, EmailDaysOld(email), "Recent work discussion ({n} days ago)")
        s10 == AgeRule(s9, EmailDaysOld(email), <<Reason("Too old (>14 days)", 0)>>)
    IN  AnalyzedItem(email, s10, _is_sensitive_content(text))

\* if msg.channel_type == 'dm': score = min(score + 0.1, 1.0)
DirectMessageRule(hit, s) ==
    IF hit
    THEN [ tier |-> s.tier,
           score |-> Min(s.score + 100, 1000),
           reasons |-> Append(s.reasons, Reason("Direct message", 0)),
           flags |-> s.flags ]
    ELSE s

\* try: float(msg.timestamp) ... .days; except (ValueError, TypeError): 0.
\* A timestamp is [is_number, parses, in_range, error, days_ago, float]:
\* whether float() accepts the string, whether float() and fromtimestamp()
\* accept it without ValueError or TypeError, whether the number fits the
\* platform's time range, the exception fromtimestamp raises when it does
\* not (OverflowError beyond time_t, OSError when localtime() fails; the
\* except clause names neither), the whole days it lies before the
\* evaluation time, and the number float() gives.
SlackTimestampConverts(msg) == ~msg.timestamp.parses \/ msg.timestamp.in_range
SlackDaysOld(msg) == IF msg.timestamp.parses THEN msg.timestamp.days_ago ELSE 0

\* is_sensitive with the channel type left out
SlackSensitiveByTextOnly(text, msg) == _is_sensitive_content(text)

\* is_sensitive = self._is_sensitive_content(text) or msg.channel_type == 'dm'
SlackSensitive(text, msg) == _is_sensitive_content(text) \/ msg.channel_type = "dm"

_analyze_slack_message(self, msg) ==
    IF ~SlackTimestampConverts(msg) THEN Raised(msg.timestamp.error) ELSE
    LET text == LowerStr(msg.text)
        s1 == TopicRule(_matches_meeting_topic(self, text), StartState)
        s2 == Propose(Len(msg.files) > 0, s1, TIER_1_CRITICAL, 850,
                      Reason("Shared {n} file(s)", Len(msg.files)), <<>>)
        s3 == Propose(_has_document_reference(text), s2, TIER_1_CRITICAL, 800,
                      Reason("References shared document", 0), <<>>)
        s4 == DirectMessageRule(msg.channel_type = "dm", s3)
        s5 == Propose(_mentions_health(text), s4, TIER_2_DYNAMICS, 750,
                      Reason("Mentions health/availability", 0), <<"health">>)
        s6 == Propose(_mentions_blocker(text), s5, TIER_2_DYNAMICS, 800,
                      Reason("Mentions blocker", 0), <<"blocker">>)
        s7 == Propose(_mentions_commitment(text), s6, TIER_2_DYNAMICS, 750,
                      Reason("Contains commitment", 0), <<"commitment">>)
        s8 == Propose(_has_unanswered_question(text), s7, TIER_2_DYNAMICS, 700,
                      Reason("Contains question directed at you", 0), <<"question">>)
        s9 == Propose(_mentions_stress(text), s8, TIER_2_DYNAMICS, 700,
                      Reason("Mentions stress/workload concern", 0), <<"stress">>)
        s10 == RecentRule(s9, text, SlackDaysOld(msg), "Recent work message ({n} days ago)")
        s11 == AgeRule(s10, SlackDaysOld(msg), <<>>)
    IN  AnalyzedItem(msg, s11, SlackSensitive(text, msg))

(***************************************************************************)
(* Insight extractor                                                        *)
(***************************************************************************)
\* isinstance(analyzed.item, EnrichedEmail)
IsEmail(item) == "subject" \in DOMAIN item

\* f"{body} (from {source})"
FromSource(body, source) == body \o <<" ","(","f","r","o","m"," ">> \o source \o <<")">>

\* the least element of a non-empty set of integers
Least(S) == CHOOSE i \in S : \A k \in S : i <= k

Terminators == {".", "!", "?"}

\* First match of  (l1|l2|...)[^.!?]+[.!?]  in text, ignoring case: <<m>>, or
\* <<>> when nothing matches.
SearchClause(text, lits) ==
    LET t == LowerStr(text)
        EndOf(i, k) ==
            LET e == i + Len(lits[k])
                stops == {j \in (e + 1)..Len(text) : text[j] \in Terminators}
            IN  IF /\ MatchAt(t, i, lits[k])
                   /\ e <= Len(text)
                   /\ text[e] \notin Terminators
                   /\ stops # {}
                THEN Least(stops) ELSE 0
        hits == {i \in 1..Len(text) : \E k \in 1..Len(lits) : EndOf(i, k) > 0}
    IN  IF hits = {} THEN <<>>
        ELSE LET i == Least(hits)
                 k == Least({a \in 1..Len(lits) : EndOf(i, a) > 0})
             IN  <<SubSeq(text, i, EndOf(i, k))>>

\* First match of  prefix(l1|l2|...)[^.!?]*[.!?]?  in text, ignoring case.
SearchDeadline(text, prefix, lits) ==
    LET t == LowerStr(text)
        hits == {i \in 1..Len(text) : \E k \in 1..Len(lits) : MatchAt(t, i, prefix \o lits[k])}
    IN  IF hits = {} THEN <<>>
        ELSE LET i == Least(hits)
                 k == Least({a \in 1..Len(lits) : MatchAt(t, i, prefix \o lits[a])})
                 e == i + Len(prefix \o lits[k])
                 stops == {j \in e..Len(text) : text[j] \in Terminators}
             IN  <<SubSeq(text, i, IF stops = {} THEN Len(text) ELSE Least(stops))>>

\* the entries one pattern adds: for match in matches[:1]
FirstMatchEntry(found, source) ==
    IF found = <<>> THEN <<>> ELSE <<FromSource(Strip(found[1]), source)>>

ExtractActionItem(text, source) ==
    LET lines == SplitOn(text, {"\n"})
        cues == <<<<"a","c","t","i","o","n",":">>, <<"t","o","d","o",":">>, <<"n","e","e","d"," ","t","o">>, <<"p","l","e","a","s","e">>>>
        hits == {i \in 1..Len(lines) : AnyIn(cues, LowerStr(lines[i]))}
    IN  IF hits = {} THEN <<>>
        ELSE <<FromSource(Strip(lines[Least(hits)]), source)>>

ExtractCommitments(text, source) ==
    FirstMatchEntry(SearchClause(text, <<<<"i","'","l","l">>, <<"i"," ","w","i","l","l">>>>), source)
    \o FirstMatchEntry(SearchDeadline(text, <<"b","y"," ">>,
          <<<<"f","r","i","d","a","y">>, <<"m","o","n","d","a","y">>, <<"t","u","e","s","d","a","y">>, <<"w","e","d","n","e","s","d","a","y">>, <<"t","h","u","r","s","d","a","y">>, <<"e","o","d">>, <<"e","o","w">>>>), source)

ExtractBlockers(text, source) ==
    FirstMatchEntry(SearchClause(text, <<<<"b","l","o","c","k","e","d">>>>), source)
    \o FirstMatchEntry(SearchClause(text, <<<<"w","a","i","t","i","n","g"," ","o","n">>>>), source)
    \o FirstMatchEntry(SearchClause(text, <<<<"c","a","n","'","t"," ","p","r","o","c","e","e","d">>>>), source)

ExtractQuestion(text, source) ==
    LET sentences == SplitOn(text, Terminators)
        cues == <<<<"c","a","n"," ","y","o","u">>, <<"c","o","u","l","d"," ","y","o","u">>, <<"d","i","d"," ","y","o","u">>>>
        hits == {i \in 1..Len(sentences) :
                    \/ Contains(sentences[i], <<"?">>)
                    \/ AnyIn(cues, LowerStr(sentences[i]))}
    IN  IF hits = {} THEN <<>>
        ELSE <<FromSource(Strip(sentences[Least(hits)]) \o <<"?">>, source)>>

ExtractHealth(text, source) ==
    LET t == LowerStr(text)
        hits == {k \in 1..Len(HEALTH_KEYWORDS) : Contains(t, HEALTH_KEYWORDS[k])}
    IN  IF hits = {} THEN <<>>
        ELSE LET kw == HEALTH_KEYWORDS[Least(hits)]
                 idx == Find(t, kw) - 1
                 start == Max(0, idx - 50)
                 end == Min(Len(text), idx + Len(kw) + 100)
                 snippet == Strip(Slice(text, start, end))
             IN  <<FromSource(<<".",".",".">> \o snippet \o <<".",".",".">>, source)>>

HasFlag(analyzed, f) == \E i \in 1..Len(analyzed.flags) : analyzed.flags[i] = f

\* the entries _extract_insights appends for one analyzed item, per list
_extract_insights(analyzed) ==
    LET item == analyzed.item
        text == IF IsEmail(item) THEN item.body_text ELSE item.text
        source == IF IsEmail(item) THEN <<"E","m","a","i","l",":"," ">> \o item.subject
                  ELSE <<"S","l","a","c","k"," ","#">> \o item.channel
    IN  [ action_items |->
              IF HasFlag(analyzed, "action_item") THEN ExtractActionItem(text, source) ELSE <<>>,
          commitments |->
              IF HasFlag(analyzed, "commitment") THEN ExtractCommitments(text, source) ELSE <<>>,
          blockers |->
              IF HasFlag(analyzed, "blocker") THEN ExtractBlockers(text, source) ELSE <<>>,
          unanswered_questions |->
              IF HasFlag(analyzed, "question") THEN ExtractQuestion(text, source) ELSE <<>>,
          health_mentions |->
              IF HasFlag(analyzed, "health") THEN ExtractHealth(text, source) ELSE <<>> ]

(***************************************************************************)
(* MeetingContext.get_all_extracted_documents                               *)
(***************************************************************************)
ExtractedDocument(filename, text_content, source_type) ==
    [filename |-> filename, text_content |-> text_content, source_type |-> source_type]

\* the attachments or files with a non-empty extracted_text, as documents
RECURSIVE DocsOfFiles(_, _)
DocsOfFiles(files, source_type) ==
    IF files = <<>> THEN <<>>
    ELSE (IF Len(files[1].extracted_text) > 0
          THEN <<ExtractedDocument(files[1].filename, files[1].extracted_text, source_type)>>
          ELSE <<>>)
         \o DocsOfFiles(Tail(files), source_type)

RECURSIVE DocsOfEmails(_)
DocsOfEmails(emails) ==
    IF emails = <<>> THEN <<>>
    ELSE DocsOfFiles(emails[1].attachments, "email_attachment") \o DocsOfEmails(Tail(emails))

RECURSIVE DocsOfMessages(_)
DocsOfMessages(msgs) ==
    IF msgs = <<>> THEN <<>>
    ELSE DocsOfFiles(msgs[1].files, "slack_file") \o DocsOfMessages(Tail(msgs))

get_all_extracted_documents(ctx) ==
    DocsOfEmails(ctx.emails)
    \o DocsOfMessages(ctx.slack_messages)
    \o DocsOfFiles(ctx.calendar_attachments, "calendar_attachment")
    \o ctx.drive_documents

_is_sensitive_document(doc) ==
    _is_sensitive_content(LowerStr(doc.text_content \o doc.filename))

(***************************************************************************)
(* Sorting and deduplication                                                *)
(***************************************************************************)
\* KeyLE with the score not negated: ascending score within a tier
KeyLEAscendingScore(a, b) ==
    \/ a.tier < b.tier
    \/ a.tier = b.tier /\ a.relevance_score <= b.relevance_score

\* key=lambda x: (x.tier.value, -x.relevance_score), compared as tuples
KeyLE(a, b) ==
    \/ a.tier < b.tier
    \/ a.tier = b.tier /\ (0 - a.relevance_score) <= (0 - b.relevance_score)

\* list.sort(key=...): stable, an element goes after those that compare <= it
RECURSIVE SortByRelevance(_)
SortByRelevance(s) ==
    IF s = <<>> THEN <<>>
    ELSE LET n == Len(s)
             front == SortByRelevance(SubSeq(s, 1, n - 1))
             k == Cardinality({j \in 1..(n - 1) : KeyLE(front[j], s[n])})
         IN  SubSeq(front, 1, k) \o <<s[n]>> \o SubSeq(front, k + 1, n - 1)

\* a deduplication that keeps the last occurrence of each entry
RECURSIVE DedupKeepingLast(_)
DedupKeepingLast(s) ==
    IF s = <<>> THEN <<>>
    ELSE LET back == DedupKeepingLast(Tail(s))
         IN  IF \E j \in 1..Len(back) : back[j] = s[1] THEN back
             ELSE <<s[1]>> \o back

\* list(dict.fromkeys(s)): the first occurrence of each entry, in order
RECURSIVE Dedup(_)
Dedup(s) ==
    IF s = <<>> THEN <<>>
    ELSE LET n == Len(s)
             front == Dedup(SubSeq(s, 1, n - 1))
         IN  IF \E j \in 1..Len(front) : front[j] = s[n] THEN front
             ELSE Append(front, s[n])

(***************************************************************************)
(* Inputs of an analysis run                                                *)
(***************************************************************************)
\* bound: the number of emails plus chat messages in one pool
MaxItems == 3

NoFiles == <<>>

Attachment(filename, extracted_text) ==
    [filename |-> filename, extracted_text |-> extracted_text]

\* an email dated days_ago days before the evaluation time, as a naive
\* datetime; its date is the evaluation time less days_ago days and seconds
\* seconds (fewer than a day's)
Email(subject, body_text, attachments, days_ago) ==
    [subject |-> subject, body_text |-> body_text,
     attachments |-> attachments,
     date |-> [naive |-> TRUE, days_ago |-> days_ago, seconds |-> 0]]

\* the same email sent so many seconds earlier on its day
Earlier(email, seconds) == [email EXCEPT !.date.seconds = @ + seconds]

\* the same email with a zone-aware date, as parsedate_to_datetime returns
\* for a Date header that names a time zone
WithAwareDate(email) == [email EXCEPT !.date.naive = FALSE]

SlackMessage(text, channel, channel_type, timestamp, files) ==
    [text |-> text, channel |-> channel, channel_type |-> channel_type,
     timestamp |-> timestamp, files |-> files]

\* float(timestamp) of a timestamp that is a number, as the seconds it lies
\* after the evaluation time: e17 * 10^17 + seconds, with seconds within the
\* range of the platform's clock
Float(e17, seconds) == [e17 |-> e17, seconds |-> seconds]

DaysAgo(d) ==
    [is_number |-> TRUE, parses |-> TRUE, in_range |-> TRUE, error |-> "none",
     days_ago |-> d, float |-> Float(0, 0 - d * 86400)]
\* the timestamp so many seconds (fewer than a day's) before one that is in
\* range
SecondsBefore(timestamp, seconds) ==
    [timestamp EXCEPT !.float.seconds = @ - seconds]
\* a string float() rejects (ValueError), such as "abc" or ""
Unparseable ==
    [is_number |-> FALSE, parses |-> FALSE, in_range |-> TRUE, error |-> "none",
     days_ago |-> 0, float |-> Float(0, 0)]
\* "nan": float() accepts it and fromtimestamp() raises ValueError
NaN ==
    [is_number |-> TRUE, parses |-> FALSE, in_range |-> TRUE, error |-> "none",
     days_ago |-> 0, float |-> Float(0, 0)]
\* a number float() accepts that fromtimestamp() cannot convert: e17 * 10^17
\* seconds, from before or after the range of the clock, and the exception
\* raised
Beyond(error, e17) ==
    [is_number |-> TRUE, parses |-> TRUE, in_range |-> FALSE, error |-> error,
     days_ago |-> 0, float |-> Float(e17, 0)]
\* a number float() accepts and localtime() cannot place: "1e18"
OutOfRange == Beyond("OSError", 10)
\* a number float() accepts that is beyond time_t: "1e20"
BeyondTimeT == Beyond("OverflowError", 1000)

\* meeting titles: none, one keyword ("budget"), stop words and short tokens
\* only, and one that names a keyword twice
MeetingTitles ==
    {<<>>, <<"Q","4"," ","B","u","d","g","e","t"," ","R","e","v","i","e","w">>, <<"W","e","e","k","l","y"," ","t","e","a","m"," ","c","a","l","l"," ","1",":","1">>, <<"B","u","d","g","e","t"," ","p","l","a","n"," ","a","n","d"," ","b","u","d","g","e","t"," ","r","e","v","i","e","w">>}

\* the title of the meeting whose pools are analysed
PoolMeetingTitle == <<"Q","4"," ","B","u","d","g","e","t"," ","R","e","v","i","e","w">>

\* external_attendees of the MeetingContext handed to the analyzer
ExternalAttendeeLists == {<<>>, <<<<"p","a","t","@","c","l","i","e","n","t",".","e","x","a","m","p","l","e">>>>}

\* The emails and chat messages a pool is drawn from.  A context holds its
\* items by reference: emails and slack_messages are lists of keys of these
\* tables, so two entries with one key are two objects of equal content.
EmailPool ==
    << Email(<<"S","t","a","t","u","s">>, <<"I"," ","a","m"," ","o","u","t"," ","s","i","c","k"," ","t","o","d","a","y",".">>, NoFiles, 1),
      Email(<<"B","u","d","g","e","t">>, <<"S","a","l","a","r","y"," ","p","l","a","n"," ","a","t","t","a","c","h","e","d"," ","i","s"," ","c","o","n","f","i","d","e","n","t","i","a","l","."," ","P","l","e","a","s","e"," ","r","e","v","i","e","w"," ","b","y"," ","F","r","i","d","a","y",".">>,
            <<Attachment(<<"s","a","l","a","r","y",".","x","l","s","x">>, <<"S","a","l","a","r","y"," ","b","a","n","d","s",":"," ","$","1","2","0","K">>), Attachment(<<"a","g","e","n","d","a",".","p","d","f">>, <<"A","g","e","n","d","a">>)>>, 2),
      Earlier(Email(<<"N","o","t","e","s">>, <<"I","'","l","l"," ","s","e","n","d"," ","t","h","e"," ","d","e","c","k","."," ","I"," ","w","i","l","l"," ","b","e"," ","b","l","o","c","k","e","d"," ","o","n"," ","t","h","e"," ","A","P","I"," ","t","e","a","m",","," ","w","a","i","t","i","n","g"," ","o","n"," ","I","T",".">>,
                    <<Attachment(<<"p","l","a","n",".","p","d","f">>, <<"R","o","a","d","m","a","p"," ","f","o","r"," ","t","h","e"," ","A","P","I">>)>>, 1), 3600),
      Email(<<"H","e","l","l","o">>, <<"Q","u","i","c","k"," ","u","p","d","a","t","e"," ","f","r","o","m"," ","t","h","e"," ","t","e","a","m">>, NoFiles, 3),
      Email(<<"O","l","d"," ","t","h","r","e","a","d">>, <<"S","t","i","l","l"," ","w","a","i","t","i","n","g"," ","o","n"," ","t","h","e"," ","v","e","n","d","o","r",".">>, NoFiles, 20) >>

SlackPool ==
    << SlackMessage(<<"I","'","m"," ","f","e","e","l","i","n","g"," ","r","e","a","l","l","y"," ","s","t","r","e","s","s","e","d"," ","a","b","o","u","t"," ","t","h","e"," ","d","e","a","d","l","i","n","e",","," ","c","a","n"," ","y","o","u"," ","h","e","l","p"," ","m","e"," ","w","i","t","h"," ","b","a","n","d","w","i","d","t","h"," ","t","h","i","s"," ","w","e","e","k","?">>,
                   <<"D","0","1">>, "dm", DaysAgo(0), NoFiles),
      SlackMessage(<<"I"," ","a","m"," ","o","u","t"," ","s","i","c","k"," ","t","o","d","a","y",".">>, <<"g","e","n","e","r","a","l">>, "channel", DaysAgo(1), NoFiles),
      SlackMessage(<<"c","o","n","g","r","a","t","s"," ","o","n"," ","t","h","e"," ","l","a","u","n","c","h","!"," ","s","e","e"," ","y","o","u"," ","a","t"," ","h","a","p","p","y"," ","h","o","u","r">>, <<"g","e","n","e","r","a","l">>, "channel",
                   DaysAgo(3), NoFiles),
      SlackMessage(<<"B","u","d","g","e","t"," ","d","r","a","f","t"," ","i","s"," ","h","e","r","e">>, <<"f","i","n","a","n","c","e">>, "group", Unparseable,
                   <<Attachment(<<"b","u","d","g","e","t",".","p","d","f">>, <<"Q","4"," ","b","u","d","g","e","t",":"," ","$","2",".","4","M"," ","(","d","o","w","n"," ","8","%",")">>)>>) >>

RECURSIVE SeqsOfLen(_, _)
SeqsOfLen(S, n) ==
    IF n = 0 THEN {<<>>}
    ELSE {Append(s, x) : s \in SeqsOfLen(S, n - 1), x \in S}

SeqsUpTo(S, n) == UNION {SeqsOfLen(S, k) : k \in 0..n}

MeetingContextOf(emails, slack_messages) ==
    [ emails |-> emails, slack_messages |-> slack_messages,
      calendar_attachments |-> <<>>, drive_documents |-> <<>> ]

\* every pool of at most MaxItems items
PoolShapes == {p \in (0..MaxItems) \X (0..MaxItems) : p[1] + p[2] <= MaxItems}

Contexts ==
    UNION { { MeetingContextOf(es, ms) :
                es \in SeqsOfLen(DOMAIN EmailPool, p[1]),
                ms \in SeqsOfLen(DOMAIN SlackPool, p[2]) } : p \in PoolShapes }

\* The emails by key: the keys of EmailPool are its emails, and key
\* Len(EmailPool) + k is an email of the content of EmailPool[k] whose Date
\* header names a time zone, so that _parse_email_message gives it a
\* zone-aware date.
EmailByKey(key) ==
    IF key \in DOMAIN EmailPool THEN EmailPool[key]
    ELSE WithAwareDate(EmailPool[key - Len(EmailPool)])

\* messages that only a search of Slack returns, with timestamps of the
\* same day as another, beyond the range of the clock on either side ("1e17",
\* "1e18", "-1e18", "1e20") and "nan"
SearchedMessages ==
    << SlackMessage(<<"B","u","d","g","e","t"," ","r","e","v","i","e","w"," ","m","o","v","e","d"," ","t","o"," ","F","r","i","d","a","y">>, <<"f","i","n","a","n","c","e">>, "channel",
                   SecondsBefore(DaysAgo(1), 3600), NoFiles),
      SlackMessage(<<"s","e","e"," ","y","o","u"," ","t","h","e","r","e">>, <<"g","e","n","e","r","a","l">>, "channel", Beyond("OSError", 1), NoFiles),
      SlackMessage(<<"s","e","e"," ","y","o","u"," ","t","h","e","r","e">>, <<"g","e","n","e","r","a","l">>, "channel", OutOfRange, NoFiles),
      SlackMessage(<<"s","e","e"," ","y","o","u"," ","t","h","e","r","e">>, <<"g","e","n","e","r","a","l">>, "channel", Beyond("OSError", -10), NoFiles),
      SlackMessage(<<"s","e","e"," ","y","o","u"," ","t","h","e","r","e">>, <<"g","e","n","e","r","a","l">>, "channel", BeyondTimeT, NoFiles),
      SlackMessage(<<"s","e","e"," ","y","o","u"," ","t","h","e","r","e">>, <<"g","e","n","e","r","a","l">>, "channel", NaN, NoFiles) >>

\* the messages by key: those of SlackPool, then those of SearchedMessages
MessageByKey(key) == (SlackPool \o SearchedMessages)[key]

\* the objects a context refers to
EmailsOf(ctx) == [i \in 1..Len(ctx.emails) |-> EmailByKey(ctx.emails[i])]
MessagesOf(ctx) == [i \in 1..Len(ctx.slack_messages) |-> MessageByKey(ctx.slack_messages[i])]

(***************************************************************************)
(* State                                                                    *)
(***************************************************************************)
VARIABLES
    analyzer,     \* the ContextAnalyzer: topic_keywords, has_external_attendees
    context,      \* the MeetingContext of the run in progress
    pc,           \* position in analyze_context
    idx,          \* index of the loop in progress
    documents,    \* the list get_all_extracted_documents returned
    filtered,     \* the FilteredContext under construction
    extracted,    \* the items handed to _extract_insights, in call order
    returned,     \* what the caller saw at each return of analyze_context
    raw,          \* classifier runs: the item drawn
    analyzed,     \* classifier runs: the AnalyzedItem returned
    pipeline,     \* a prep pipeline: its caller, its gatherer, the meeting, its stage
    scheduler,    \* the PrepScheduler: running, _task
    tasks,        \* the asyncio tasks created for _run_loop, by creation order
    caller,       \* the coroutine calling start() and stop(): its position
    cycle,        \* the position of _check_and_generate and the calls below it
    meeting_preps,\* the meeting_preps table: (user, meeting) -> stored prep
    request,      \* a generate_enhanced_prep request: its position
    journal       \* what the scheduler cycles and requests did, in order

analysisVars ==
    <<analyzer, context, pc, idx, documents, filtered, extracted, returned, raw, analyzed>>

serviceVars ==
    <<pipeline, scheduler, tasks, caller, cycle, meeting_preps, request, journal>>

vars == <<analysisVars, serviceVars>>

\* no pipeline, scheduler or request exists: the state of the service
\* variables wherever the analyzer is studied alone
ServiceIdle ==
    /\ pipeline = [stage |-> "none"]
    /\ scheduler = [running |-> FALSE, _task |-> 0]
    /\ tasks = <<>>
    /\ caller = [at |-> "none"]
    /\ cycle = [at |-> "none"]
    /\ meeting_preps = {}
    /\ request = [at |-> "none"]
    /\ journal = <<>>

NoContext == MeetingContextOf(<<>>, <<>>)
NoItem == [kind |-> "none"]

\* FilteredContext(emails=[], slack_messages=[], documents=[]): the other
\* fields take their defaults
NewFilteredContext ==
    [ emails |-> <<>>, slack_messages |-> <<>>, documents |-> <<>>,
      action_items |-> <<>>, commitments |-> <<>>, blockers |-> <<>>,
      unanswered_questions |-> <<>>, health_mentions |-> <<>>,
      relationship_notes |-> <<>>,
      document_summaries |-> <<>>,
      total_items_analyzed |-> 0, items_included |-> 0, items_excluded |-> 0 ]

\* an AnalyzedItem as the run holds it: item is the key of the wrapped
\* object and ref its identity, its place in the input list
Held(a, ref, key) ==
    [ ref |-> ref, item |-> key, tier |-> a.tier,
      relevance_score |-> a.relevance_score, reasons |-> a.reasons,
      flags |-> a.flags, is_sensitive |-> a.is_sensitive ]

\* filtered with the insight entries of one item appended
WithInsights(f, a) ==
    LET ins == _extract_insights(a)
    IN  [ f EXCEPT !.action_items = @ \o ins.action_items,
                   !.commitments = @ \o ins.commitments,
                   !.blockers = @ \o ins.blockers,
                   !.unanswered_questions = @ \o ins.unanswered_questions,
                   !.health_mentions = @ \o ins.health_mentions ]

\* Redacted with tier-1 items exempt from the external-attendee filter
RedactedUnlessCritical(self, a) ==
    self.has_external_attendees /\ a.is_sensitive /\ a.tier # TIER_1_CRITICAL

\* the external-attendee filter: has_external_attendees and is_sensitive
Redacted(self, a) == self.has_external_attendees /\ a.is_sensitive

\* Classified with the tier test dropped: every item is treated as relevant
ClassifiedKeepingExcluded(self, f, a, list, ref, key) ==
    LET counted == [f EXCEPT !.total_items_analyzed = @ + 1]
    IN  IF Redacted(self, a) THEN [f |-> counted, called |-> FALSE]
        ELSE [ f |-> WithInsights([counted EXCEPT ![list] = Append(@, Held(a, ref, key)),
                                                  !.items_included = @ + 1], a),
               called |-> TRUE ]

\* Classified with the total counted only for the items that are kept
ClassifiedCountingKept(self, f, a, list, ref, key) ==
    IF a.tier # TIER_4_EXCLUDE
    THEN IF Redacted(self, a) THEN [f |-> f, called |-> FALSE]
         ELSE [ f |-> WithInsights([f EXCEPT ![list] = Append(@, Held(a, ref, key)),
                                             !.total_items_analyzed = @ + 1,
                                             !.items_included = @ + 1], a),
                called |-> TRUE ]
    ELSE [f |-> [f EXCEPT !.items_excluded = @ + 1], called |-> FALSE]

\* Classified with a redacted item counted as excluded
ClassifiedExcludingRedacted(self, f, a, list, ref, key) ==
    LET counted == [f EXCEPT !.total_items_analyzed = @ + 1]
    IN  IF a.tier # TIER_4_EXCLUDE
        THEN IF Redacted(self, a)
             THEN [f |-> [counted EXCEPT !.items_excluded = @ + 1], called |-> FALSE]
             ELSE [ f |-> WithInsights([counted EXCEPT ![list] = Append(@, Held(a, ref, key)),
                                                       !.items_included = @ + 1], a),
                    called |-> TRUE ]
        ELSE [f |-> [counted EXCEPT !.items_excluded = @ + 1], called |-> FALSE]

\* Classified with the insights extracted before the redaction test
ClassifiedExtractingRedacted(self, f, a, list, ref, key) ==
    LET counted == [f EXCEPT !.total_items_analyzed = @ + 1]
    IN  IF a.tier # TIER_4_EXCLUDE
        THEN IF Redacted(self, a) THEN [f |-> WithInsights(counted, a), called |-> TRUE]
             ELSE [ f |-> WithInsights([counted EXCEPT ![list] = Append(@, Held(a, ref, key)),
                                                       !.items_included = @ + 1], a),
                    called |-> TRUE ]
        ELSE [f |-> [counted EXCEPT !.items_excluded = @ + 1], called |-> FALSE]

\* One iteration of either item loop: count, then include, redact or exclude.
\* Yields the FilteredContext after it (f) and whether _extract_insights was
\* called on the item (called).
Classified(self, f, a, list, ref, key) ==
    LET counted == [f EXCEPT !.total_items_analyzed = @ + 1]
    IN  IF a.tier # TIER_4_EXCLUDE
        THEN IF Redacted(self, a) THEN [f |-> counted, called |-> FALSE]
             ELSE [ f |-> WithInsights([counted EXCEPT ![list] = Append(@, Held(a, ref, key)),
                                                       !.items_included = @ + 1], a),
                    called |-> TRUE ]
        ELSE [f |-> [counted EXCEPT !.items_excluded = @ + 1], called |-> FALSE]

(***************************************************************************)
(* analyze_context                                                          *)
(***************************************************************************)
Init ==
    /\ \E x \in ExternalAttendeeLists :
          analyzer = NewContextAnalyzer(PoolMeetingTitle, x)
    /\ context = NoContext
    /\ pc = "ready"
    /\ idx = 0
    /\ documents = <<>>
    /\ filtered = NewFilteredContext
    /\ extracted = <<>>
    /\ returned = <<>>
    /\ ServiceIdle
    /\ raw = NoItem
    /\ analyzed = NoItem

\* the FilteredContext of an earlier run, its insight lists carried into the
\* next one (default lists shared between the objects)
FilteredContextSharingLists(previous) ==
    [ NewFilteredContext EXCEPT !.action_items = previous.action_items,
                                !.commitments = previous.commitments,
                                !.blockers = previous.blockers,
                                !.unanswered_questions = previous.unanswered_questions,
                                !.health_mentions = previous.health_mentions ]

\* filtered = FilteredContext(...) on entry: a new object with new lists
\* (field(default_factory=list)), whatever an earlier run (previous) built
FreshFilteredContext(previous) == NewFilteredContext

\* analyze_context(context) is entered with one of the contexts ctxs
Enter(ctxs) ==
    /\ \E ctx \in ctxs : context' = ctx
    /\ pc' = "emails"
    /\ idx' = 1
    /\ documents' = <<>>
    /\ filtered' = FreshFilteredContext(filtered)
    /\ extracted' = <<>>
    /\ UNCHANGED <<analyzer, returned, raw, analyzed>>
    /\ UNCHANGED serviceVars

Call ==
    /\ pc = "ready"
    /\ Enter(Contexts)

\* for email in context.emails: one iteration
AnalyzeEmailStep ==
    /\ pc = "emails"
    /\ idx <= Len(context.emails)
    /\ LET a == _analyze_email(analyzer, EmailsOf(context)[idx])
           r == Classified(analyzer, filtered, a, "emails", idx, context.emails[idx])
       IN  IF IsRaised(a)
           THEN /\ pc' = "raised"
                /\ UNCHANGED <<idx, filtered, extracted>>
           ELSE /\ filtered' = r.f
                /\ extracted' = IF r.called THEN Append(extracted, <<"email", idx>>)
                                ELSE extracted
                /\ idx' = idx + 1
                /\ pc' = pc
    /\ UNCHANGED <<analyzer, context, documents, returned, raw, analyzed>>
    /\ UNCHANGED serviceVars

EmailsDone ==
    /\ pc = "emails"
    /\ idx > Len(context.emails)
    /\ pc' = "slack"
    /\ idx' = 1
    /\ UNCHANGED <<analyzer, context, documents, filtered, extracted, returned, raw, analyzed>>
    /\ UNCHANGED serviceVars

\* for msg in context.slack_messages: one iteration
AnalyzeSlackStep ==
    /\ pc = "slack"
    /\ idx <= Len(context.slack_messages)
    /\ LET a == _analyze_slack_message(analyzer, MessagesOf(context)[idx])
           r == Classified(analyzer, filtered, a, "slack_messages", idx,
                           context.slack_messages[idx])
       IN  IF IsRaised(a)
           THEN /\ pc' = "raised"
                /\ UNCHANGED <<idx, filtered, extracted>>
           ELSE /\ filtered' = r.f
                /\ extracted' = IF r.called THEN Append(extracted, <<"slack", idx>>)
                                ELSE extracted
                /\ idx' = idx + 1
                /\ pc' = pc
    /\ UNCHANGED <<analyzer, context, documents, returned, raw, analyzed>>
    /\ UNCHANGED serviceVars

\* the message loop ends; context.get_all_extracted_documents() is called
SlackDone ==
    /\ pc = "slack"
    /\ idx > Len(context.slack_messages)
    /\ pc' = "documents"
    /\ idx' = 1
    /\ documents' = get_all_extracted_documents(
                     [context EXCEPT !.emails = EmailsOf(context),
                                     !.slack_messages = MessagesOf(context)])
    /\ UNCHANGED <<analyzer, context, filtered, extracted, returned, raw, analyzed>>
    /\ UNCHANGED serviceVars

\* _extract_document_insights: the summary record of a kept document (the
\* metric and structure extraction of document_processor is not modelled)
DocumentSummary(doc) == [filename |-> doc.filename, source_type |-> doc.source_type]

\* for doc in ...: one iteration
ProcessDocumentStep ==
    /\ pc = "documents"
    /\ idx <= Len(documents)
    /\ LET doc == documents[idx]
       IN  filtered' =
             IF analyzer.has_external_attendees /\ _is_sensitive_document(doc)
             THEN filtered
             ELSE [filtered EXCEPT !.documents = Append(@, doc),
                                   !.document_summaries = Append(@, DocumentSummary(doc))]
    /\ idx' = idx + 1
    /\ UNCHANGED <<analyzer, context, pc, documents, extracted, returned, raw, analyzed>>
    /\ UNCHANGED serviceVars

DocumentsDone ==
    /\ pc = "documents"
    /\ idx > Len(documents)
    /\ pc' = "sort"
    /\ idx' = 0
    /\ UNCHANGED <<analyzer, context, documents, filtered, extracted, returned, raw, analyzed>>
    /\ UNCHANGED serviceVars

\* filtered.emails.sort(...); filtered.slack_messages.sort(...)
SortStep ==
    /\ pc = "sort"
    /\ filtered' = [filtered EXCEPT !.emails = SortByRelevance(@),
                                    !.slack_messages = SortByRelevance(@)]
    /\ pc' = "dedup"
    /\ UNCHANGED <<analyzer, context, idx, documents, extracted, returned, raw, analyzed>>
    /\ UNCHANGED serviceVars

\* the four list(dict.fromkeys(...)) assignments, then return filtered
DedupStep ==
    /\ pc = "dedup"
    /\ filtered' = [filtered EXCEPT !.action_items = Dedup(@),
                                    !.commitments = Dedup(@),
                                    !.blockers = Dedup(@),
                                    !.unanswered_questions = Dedup(@)]
    /\ pc' = "done"
    /\ returned' = Append(returned, [ context |-> context, analyzer |-> analyzer,
                                      result |-> filtered' ])
    /\ UNCHANGED <<analyzer, context, idx, documents, extracted, raw, analyzed>>
    /\ UNCHANGED serviceVars

Next ==
    \/ Call
    \/ AnalyzeEmailStep
    \/ EmailsDone
    \/ AnalyzeSlackStep
    \/ SlackDone
    \/ ProcessDocumentStep
    \/ DocumentsDone
    \/ SortStep
    \/ DedupStep

Spec == Init /\ [][Next]_vars

(***************************************************************************)
(* analyze_context called again on the context it has returned from         *)
(***************************************************************************)
\* bound: the number of emails plus chat messages in a pool analysed twice
MaxRerunItems == 2

\* bound: the number of calls on one context
MaxRuns == 2

RerunContexts ==
    {ctx \in Contexts : Len(ctx.emails) + Len(ctx.slack_messages) <= MaxRerunItems}

CallOnce ==
    /\ pc = "ready"
    /\ Enter(RerunContexts)

\* the caller hands the same MeetingContext to the same analyzer again
CallAgain ==
    /\ pc = "done"
    /\ Len(returned) < MaxRuns
    /\ Enter({context})

RerunNext ==
    \/ CallOnce
    \/ CallAgain
    \/ AnalyzeEmailStep
    \/ EmailsDone
    \/ AnalyzeSlackStep
    \/ SlackDone
    \/ ProcessDocumentStep
    \/ DocumentsDone
    \/ SortStep
    \/ DedupStep

RerunSpec == Init /\ [][RerunNext]_vars

(***************************************************************************)
(* Classifier runs: one item drawn, then classified                         *)
(***************************************************************************)
\* bound: the number of phrases in the text of a drawn item
MaxPhrases == 2

\* one phrase per signal: topic, document reference, action item, health,
\* blocker, commitment, question, stress, social, sensitive, work
Phrases ==
    << <<"b","u","d","g","e","t"," ","f","i","g","u","r","e","s">>, <<"s","e","e"," ","t","h","e"," ","d","o","c">>, <<"w","e"," ","n","e","e","d"," ","t","o"," ","c","a","l","l"," ","s","a","m">>, <<"o","u","t"," ","s","i","c","k">>,
       <<"b","l","o","c","k","e","d"," ","o","n"," ","a","p","i",".">>, <<"i"," ","p","r","o","m","i","s","e">>, <<"t","h","o","u","g","h","t","s","?">>, <<"o","v","e","r","w","h","e","l","m","e","d">>,
       <<"c","o","n","g","r","a","t","s">>, <<"s","a","l","a","r","y">>, <<"p","r","o","j","e","c","t"," ","p","l","a","n">> >>

\* the phrases of ps (a set of indices), in table order, joined by spaces
RECURSIVE JoinPhrases(_)
JoinPhrases(ps) ==
    IF ps = {} THEN <<>>
    ELSE LET k == CHOOSE i \in ps : \A j \in ps : i <= j
             rest == JoinPhrases(ps \ {k})
         IN  IF rest = <<>> THEN Phrases[k] ELSE Phrases[k] \o <<" ">> \o rest

DrawnTexts ==
    {JoinPhrases(ps) : ps \in {q \in SUBSET (DOMAIN Phrases) : Cardinality(q) <= MaxPhrases}}

OneFile == <<Attachment(<<"p","l","a","n",".","p","d","f">>, <<"P","l","a","n">>)>>

EmailAges == {-11, 0, 7, 8, 14, 15}
SlackTimestamps ==
    {DaysAgo(0), DaysAgo(8), DaysAgo(15), Unparseable, NaN, OutOfRange, BeyondTimeT}
ChannelTypes == {"dm", "channel", "group"}

NaiveEmails ==
    {Email(<<"F","Y","I">>, t, a, d) : t \in DrawnTexts, a \in {NoFiles, OneFile}, d \in EmailAges}

\* emails dated now, with a zone-aware date
AwareEmails == {WithAwareDate(Email(<<"F","Y","I">>, t, NoFiles, 0)) : t \in DrawnTexts}

DrawnEmails == NaiveEmails \cup AwareEmails

DrawnMessages ==
    {SlackMessage(t, <<"g","e","n","e","r","a","l">>, c, ts, f) :
        t \in DrawnTexts, c \in ChannelTypes, ts \in SlackTimestamps, f \in {NoFiles, OneFile}}

ClassifyInit ==
    /\ \E t \in MeetingTitles : analyzer = NewContextAnalyzer(t, <<>>)
    /\ raw \in DrawnEmails \cup DrawnMessages
    /\ analyzed = NoItem
    /\ context = NoContext
    /\ pc = "classify"
    /\ idx = 0
    /\ documents = <<>>
    /\ filtered = NewFilteredContext
    /\ extracted = <<>>
    /\ returned = <<>>
    /\ ServiceIdle

ClassifyEmail ==
    /\ pc = "classify"
    /\ IsEmail(raw)
    /\ LET a == _analyze_email(analyzer, raw)
       IN  IF IsRaised(a)
           THEN pc' = "raised" /\ analyzed' = analyzed
           ELSE pc' = "classified" /\ analyzed' = a
    /\ UNCHANGED <<analyzer, context, idx, documents, filtered, extracted, returned, raw>>
    /\ UNCHANGED serviceVars

ClassifySlack ==
    /\ pc = "classify"
    /\ ~IsEmail(raw)
    /\ LET a == _analyze_slack_message(analyzer, raw)
       IN  IF IsRaised(a)
           THEN pc' = "raised" /\ analyzed' = analyzed
           ELSE pc' = "classified" /\ analyzed' = a
    /\ UNCHANGED <<analyzer, context, idx, documents, filtered, extracted, returned, raw>>
    /\ UNCHANGED serviceVars

ClassifyNext == ClassifyEmail \/ ClassifySlack

ClassifySpec == ClassifyInit /\ [][ClassifyNext]_vars

(***************************************************************************)
(* Properties of an analysis run                                            *)
(***************************************************************************)
\* the classification of the i-th input email, of the i-th input message
\* (each pool item is classified once per analyzer and looked up afterwards)
PoolAnalyzers == {NewContextAnalyzer(PoolMeetingTitle, x) : x \in ExternalAttendeeLists}

EmailVerdicts ==
    {<<a, k, _analyze_email(a, EmailPool[k])>> : a \in PoolAnalyzers, k \in DOMAIN EmailPool}

MessageVerdicts ==
    {<<a, k, _analyze_slack_message(a, SlackPool[k])>> :
        a \in PoolAnalyzers, k \in DOMAIN SlackPool}

EmailVerdict(i) ==
    (CHOOSE t \in EmailVerdicts : t[1] = analyzer /\ t[2] = context.emails[i])[3]
MessageVerdict(i) ==
    (CHOOSE t \in MessageVerdicts : t[1] = analyzer /\ t[2] = context.slack_messages[i])[3]

Returned == pc = "done"

RefsOf(list) == {list[k].ref : k \in DOMAIN list}

NoDuplicates(s) == \A i, j \in DOMAIN s : i # j => s[i] # s[j]

\* C1: after every run, items_included + items_excluded equals
\* total_items_analyzed (an item dropped by redaction is counted too).
C1_CountersBalance ==
    Returned =>
        filtered.items_included + filtered.items_excluded = filtered.total_items_analyzed

\* C2: with external attendees, no email or chat message classified
\* is_sensitive appears in the output emails or slack_messages, whatever its
\* tier.
C2_SensitiveItemsRedacted ==
    (Returned /\ analyzer.has_external_attendees) =>
        /\ \A i \in DOMAIN context.emails :
              EmailVerdict(i).is_sensitive => i \notin RefsOf(filtered.emails)
        /\ \A i \in DOMAIN context.slack_messages :
              MessageVerdict(i).is_sensitive => i \notin RefsOf(filtered.slack_messages)
        /\ \A k \in DOMAIN filtered.emails : ~filtered.emails[k].is_sensitive
        /\ \A k \in DOMAIN filtered.slack_messages : ~filtered.slack_messages[k].is_sensitive

\* a run with external attendees that met a sensitive tier-1 email, dropped
\* it, and kept another item
C2_Witness ==
    /\ Returned
    /\ analyzer.has_external_attendees
    /\ \E i \in DOMAIN context.emails :
          /\ EmailVerdict(i).is_sensitive
          /\ EmailVerdict(i).tier = TIER_1_CRITICAL
    /\ filtered.items_included >= 1

\* C3: every classified item has a tier in 1..4, and an item of final tier 4
\* is in neither output list and is never handed to _extract_insights.
C3_TierFourNeverSurfaces ==
    Returned =>
        /\ \A i \in DOMAIN context.emails :
              LET tier == EmailVerdict(i).tier
              IN  /\ tier \in 1..4
                  /\ tier = TIER_4_EXCLUDE =>
                        /\ i \notin RefsOf(filtered.emails)
                        /\ \A k \in DOMAIN extracted : extracted[k] # <<"email", i>>
        /\ \A i \in DOMAIN context.slack_messages :
              LET tier == MessageVerdict(i).tier
              IN  /\ tier \in 1..4
                  /\ tier = TIER_4_EXCLUDE =>
                        /\ i \notin RefsOf(filtered.slack_messages)
                        /\ \A k \in DOMAIN extracted : extracted[k] # <<"slack", i>>
        /\ \A k \in DOMAIN filtered.emails : filtered.emails[k].tier \in 1..3
        /\ \A k \in DOMAIN filtered.slack_messages : filtered.slack_messages[k].tier \in 1..3

\* a run that excluded a tier-4 email and a tier-4 message and extracted
\* insights from a third item
C3_Witness ==
    /\ Returned
    /\ \E i \in DOMAIN context.emails : EmailVerdict(i).tier = TIER_4_EXCLUDE
    /\ \E i \in DOMAIN context.slack_messages : MessageVerdict(i).tier = TIER_4_EXCLUDE
    /\ Len(extracted) >= 1

\* C4: in the returned FilteredContext none of the six insight lists holds
\* the same string twice.
C4_InsightListsHaveNoDuplicates ==
    Returned =>
        /\ NoDuplicates(filtered.action_items)
        /\ NoDuplicates(filtered.commitments)
        /\ NoDuplicates(filtered.blockers)
        /\ NoDuplicates(filtered.unanswered_questions)
        /\ NoDuplicates(filtered.health_mentions)
        /\ NoDuplicates(filtered.relationship_notes)

\* a precedes b in the order the claim describes: lower tier first, then the
\* higher score, then the earlier place in the input
Precedes(a, b) ==
    \/ a.tier < b.tier
    \/ a.tier = b.tier /\ a.relevance_score > b.relevance_score
    \/ a.tier = b.tier /\ a.relevance_score = b.relevance_score /\ a.ref < b.ref

InRelevanceOrder(list) ==
    \A i, j \in DOMAIN list : i < j => Precedes(list[i], list[j])

\* C5: the output emails and the output slack_messages are each ordered by
\* tier ascending, then relevance_score descending, and items equal in both
\* keep their input order.
C5_OutputStablySorted ==
    Returned =>
        /\ InRelevanceOrder(filtered.emails)
        /\ InRelevanceOrder(filtered.slack_messages)

\* a returned email list in which the sort moved a later input ahead of an
\* earlier one and left two items of equal tier and score in input order
C5_Witness ==
    /\ Returned
    /\ \E i, j \in DOMAIN filtered.emails :
          i < j /\ filtered.emails[i].ref > filtered.emails[j].ref
    /\ \E i, j \in DOMAIN filtered.emails :
          /\ i < j
          /\ filtered.emails[i].tier = filtered.emails[j].tier
          /\ filtered.emails[i].relevance_score = filtered.emails[j].relevance_score

\* C6: every input email and chat message is classified exactly once, so
\* total_items_analyzed counts the items passed so far and, at the end, the
\* emails plus the chat messages of the input.
C6_EveryItemCounted ==
    /\ pc = "emails" => filtered.total_items_analyzed = idx - 1
    /\ pc = "slack" => filtered.total_items_analyzed = Len(context.emails) + idx - 1
    /\ pc \in {"documents", "sort", "dedup", "done"} =>
          filtered.total_items_analyzed = Len(context.emails) + Len(context.slack_messages)

\* a returned run over emails and messages of which one was excluded, one
\* redacted and one kept
C6_Witness ==
    /\ Returned
    /\ Len(context.emails) >= 1
    /\ Len(context.slack_messages) >= 1
    /\ filtered.total_items_analyzed = 3
    /\ filtered.items_excluded = 1
    /\ filtered.items_included = 1

(***************************************************************************)
(* Properties of one classification                                         *)
(***************************************************************************)
ItemClassified == pc = "classified"

\* the lowered text the classifier reads from the drawn item, its age in
\* days and its attached files
RawText == IF IsEmail(raw) THEN LowerStr(raw.subject \o <<" ">> \o raw.body_text)
           ELSE LowerStr(raw.text)
RawDaysOld == IF IsEmail(raw) THEN EmailDaysOld(raw) ELSE SlackDaysOld(raw)
RawFiles == IF IsEmail(raw) THEN raw.attachments ELSE raw.files

\* the <<tier, score>> pairs proposed by the signal rules that the drawn
\* item triggers, each rule judged on its own
SignalProposals ==
    {p \in {<<1, 900>>} : _matches_meeting_topic(analyzer, RawText)}
    \cup {p \in {<<1, 850>>} : Len(RawFiles) > 0}
    \cup {p \in {<<1, 800>>} : _has_document_reference(RawText)}
    \cup {p \in {<<1, 850>>} : IsEmail(raw) /\ _has_action_items(RawText)}
    \cup {p \in {<<2, 750>>} : _mentions_health(RawText)}
    \cup {p \in {<<2, 800>>} : _mentions_blocker(RawText)}
    \cup {p \in {<<2, 750>>} : _mentions_commitment(RawText)}
    \cup {p \in {<<2, 700>>} : _has_unanswered_question(RawText)}
    \cup {p \in {<<2, 700>>} : ~IsEmail(raw) /\ _mentions_stress(RawText)}

\* the recency rule proposes tier 3 when no signal rule triggered, the item
\* is at most 7 days old and its text is not purely social
RecencyProposals(signals) ==
    IF signals = {} /\ RawDaysOld <= 7 /\ ~_is_purely_social(RawText)
    THEN {<<3, Tier3Score(RawDaysOld)>>}
    ELSE {}

TriggeredProposals ==
    LET signals == SignalProposals IN signals \cup RecencyProposals(signals)

\* the least tier and the greatest score among the proposals ps
LeastTier(ps) == IF ps = {} THEN TIER_4_EXCLUDE
                 ELSE CHOOSE t \in {p[1] : p \in ps} : \A p \in ps : t <= p[1]
GreatestScore(ps) == IF ps = {} THEN 0
                     ELSE CHOOSE v \in {p[2] : p \in ps} : \A p \in ps : v >= p[2]

\* C7: an email or chat message older than 14 days ends in tier 1 or tier 4:
\* tier 1 exactly when one of its triggered rules is a tier-1 rule, tier 4
\* when its best triggered rule is tier 2 or 3.
C7_OldItemsCriticalOrExcluded ==
    (ItemClassified /\ RawDaysOld > 14) =>
        LET best == LeastTier(TriggeredProposals)
        IN  /\ analyzed.tier \in {TIER_1_CRITICAL, TIER_4_EXCLUDE}
            /\ best = TIER_1_CRITICAL => analyzed.tier = TIER_1_CRITICAL
            /\ best > TIER_1_CRITICAL => analyzed.tier = TIER_4_EXCLUDE

\* an item older than 14 days whose best triggered rule was tier 2 and which
\* was classified tier 4
C7_Witness ==
    /\ ItemClassified
    /\ RawDaysOld > 14
    /\ LeastTier(TriggeredProposals) = TIER_2_DYNAMICS
    /\ analyzed.tier = TIER_4_EXCLUDE

\* C8: for an email or chat message at most 14 days old the final tier is the
\* least tier among the triggered rules (4 when none triggered) and, the
\* direct-message side rule apart, the final score is the greatest score
\* those rules propose (0 when none triggered), never their sum.
C8_MinTierMaxScore ==
    (ItemClassified /\ RawDaysOld <= 14) =>
        LET ps == TriggeredProposals
        IN  /\ analyzed.tier = LeastTier(ps)
            /\ (IsEmail(raw) \/ raw.channel_type # "dm") =>
                  analyzed.relevance_score = GreatestScore(ps)

\* an item at most 14 days old, not a direct message, that triggered a tier-1
\* rule and a tier-2 rule proposing different scores
C8_Witness ==
    /\ ItemClassified
    /\ RawDaysOld <= 14
    /\ IsEmail(raw) \/ raw.channel_type # "dm"
    /\ \E p, q \in TriggeredProposals : p[1] = 1 /\ q[1] = 2 /\ p[2] > q[2]
    /\ analyzed.tier = TIER_1_CRITICAL
    /\ analyzed.relevance_score = GreatestScore(TriggeredProposals)

\* C9: an item, email or chat message, whose text matches an action-item
\* pattern is classified tier 1 with score at least 0.85 and carries the flag
\* action_item.
C9_ActionItemsAreCritical ==
    (ItemClassified /\ _has_action_items(RawText)) =>
        /\ analyzed.tier = TIER_1_CRITICAL
        /\ analyzed.relevance_score >= 850
        /\ HasFlag(analyzed, "action_item")

\* C10: the final score of a direct message is min(1.0, s + 0.1), s being the
\* final score of the same message classified with channel type "channel".
C10_DirectMessageBonus ==
    (ItemClassified /\ ~IsEmail(raw) /\ raw.channel_type = "dm") =>
        analyzed.relevance_score =
            Min(1000, _analyze_slack_message(analyzer,
                          [raw EXCEPT !.channel_type = "channel"]).relevance_score + 100)

\* C11: a chat message of channel type dm is classified is_sensitive whatever
\* its text and tier, and so one loop iteration of an analyzer with external
\* attendees neither appends it to slack_messages nor extracts insights from
\* it.
C11_DirectMessagesAreSensitive ==
    (ItemClassified /\ ~IsEmail(raw) /\ raw.channel_type = "dm") =>
        /\ analyzed.is_sensitive
        /\ LET external == [analyzer EXCEPT !.has_external_attendees = TRUE]
               r == Classified(external, NewFilteredContext, analyzed, "slack_messages", 1, 1)
           IN  /\ r.f.slack_messages = <<>>
               /\ r.f.items_included = 0
               /\ ~r.called

\* a direct message with no sensitive keyword in its text, classified
\* sensitive and tier 1
C11_Witness ==
    /\ ItemClassified
    /\ ~IsEmail(raw)
    /\ raw.channel_type = "dm"
    /\ ~_is_sensitive_content(RawText)
    /\ analyzed.tier = TIER_1_CRITICAL
    /\ analyzed.is_sensitive

\* C12: an item that triggers no tier-1 and no tier-2 rule gets tier 3 exactly
\* when it is at most 7 days old and not purely social (purely social: at
\* least one social keyword and no work keyword), and tier 4 otherwise.
C12_RecentWorkOrExcluded ==
    (ItemClassified /\ SignalProposals = {}) =>
        LET social_count == CountIn(SOCIAL_KEYWORDS, RawText)
            work_count == CountIn(work_indicators, RawText)
            purely_social == social_count >= 1 /\ work_count = 0
        IN  IF RawDaysOld <= 7 /\ ~purely_social
            THEN analyzed.tier = TIER_3_GENERAL
            ELSE analyzed.tier = TIER_4_EXCLUDE

\* an item 7 days old with a social and a work keyword and no signal, kept at
\* tier 3
C12_Witness ==
    /\ ItemClassified
    /\ SignalProposals = {}
    /\ RawDaysOld = 7
    /\ CountIn(SOCIAL_KEYWORDS, RawText) >= 1
    /\ CountIn(work_indicators, RawText) >= 1
    /\ analyzed.tier = TIER_3_GENERAL

\* C13: the relevance_score of every classified item lies between 0.0 and
\* 1.0, items dated in the future included.
C13_ScoreWithinUnitRange ==
    ItemClassified => (analyzed.relevance_score >= 0 /\ analyzed.relevance_score <= 1000)

\* the drawn item carries a date or timestamp no age can be computed from:
\* a zone-aware email date, a chat timestamp that is no number or that is a
\* number outside the range of the platform's clock
TimestampUnusable ==
    IF IsEmail(raw) THEN ~raw.date.naive
    ELSE ~raw.timestamp.parses \/ ~raw.timestamp.in_range

\* the drawn item as it would be with a usable timestamp of age 0
DatedNow ==
    IF IsEmail(raw) THEN [raw EXCEPT !.date = [naive |-> TRUE, days_ago |-> 0, seconds |-> 0]]
    ELSE [raw EXCEPT !.timestamp = DaysAgo(0)]

\* C15: classifying an item whose timestamp cannot be parsed or used to
\* compute an age does not raise, and the item is classified as the same item
\* of age 0 is (same tier, score, reasons and flags).
C15_UnusableTimestampsAgeZero ==
    (pc \in {"classified", "raised"} /\ TimestampUnusable) =>
        /\ pc = "classified"
        /\ LET now == IF IsEmail(raw) THEN _analyze_email(analyzer, DatedNow)
                      ELSE _analyze_slack_message(analyzer, DatedNow)
           IN  /\ analyzed.tier = now.tier
               /\ analyzed.relevance_score = now.relevance_score
               /\ analyzed.reasons = now.reasons
               /\ analyzed.flags = now.flags

\* s contains one of the sensitive keywords, case ignored
MatchesSensitive(s) == AnyIn(SENSITIVE_KEYWORDS, LowerStr(s))

\* the documents of docs that are not to be dropped when a document is
\* dropped for its filename or its content matching
KeptByNameOrContent(docs) ==
    SelectSeq(docs, LAMBDA d :
        ~(analyzer.has_external_attendees
          /\ (MatchesSensitive(d.filename) \/ MatchesSensitive(d.text_content))))

\* C16: after a run the output documents are the gathered documents without
\* those whose filename or content matches a sensitive keyword while the
\* meeting has external attendees, in order, with one summary record each.
C16_DocumentsDroppedByNameOrContent ==
    Returned =>
        /\ filtered.documents = KeptByNameOrContent(documents)
        /\ Len(filtered.document_summaries) = Len(filtered.documents)

\* the input items of the run with their classifications, as
\* <<kind, index, verdict>>
InputVerdicts ==
    {<<"email", i, EmailVerdict(i)>> : i \in DOMAIN context.emails}
    \cup {<<"slack", i, MessageVerdict(i)>> : i \in DOMAIN context.slack_messages}

\* those of them that are neither excluded nor redacted
Surfaced(verdicts) ==
    {t \in verdicts :
        /\ t[3].tier # TIER_4_EXCLUDE
        /\ ~(analyzer.has_external_attendees /\ t[3].is_sensitive)}

InsightLists ==
    {"action_items", "commitments", "blockers", "unanswered_questions", "health_mentions"}

\* C17: insight extraction is applied only to items that are neither tier 4
\* nor redacted: every item handed to _extract_insights is such an item, and
\* every entry of every insight list is among the insights of such an item, so
\* with external attendees none comes from a sensitive item.
C17_InsightsOnlyFromSurfacedItems ==
    Returned =>
        LET surfaced == Surfaced(InputVerdicts)
            insights == {_extract_insights(t[3]) : t \in surfaced}
        IN  /\ \A k \in DOMAIN extracted :
                  \E t \in surfaced : t[1] = extracted[k][1] /\ t[2] = extracted[k][2]
            /\ \A l \in InsightLists : \A n \in DOMAIN filtered[l] :
                  \E ins \in insights :
                      \E m \in DOMAIN ins[l] : ins[l][m] = filtered[l][n]

\* a run with external attendees over a sensitive email that carries insights
\* and is not tier 4, and an item whose insights were extracted
C17_Witness ==
    /\ Returned
    /\ analyzer.has_external_attendees
    /\ \E i \in DOMAIN context.emails :
          LET v == EmailVerdict(i)
          IN  /\ v.is_sensitive
              /\ v.tier # TIER_4_EXCLUDE
              /\ \E l \in InsightLists : _extract_insights(v)[l] # <<>>
    /\ extracted # <<>>
    /\ \E l \in InsightLists : filtered[l] # <<>>

\* the words of a title, as re.findall(r'\b\w+\b', topic.lower()) finds them
TitleWords(title) ==
    LET words == FindWords(LowerStr(title)) IN {words[i] : i \in DOMAIN words}

TopicReason == Reason("Directly mentions meeting topic", 0)

TopicRuleTriggered == \E k \in DOMAIN analyzed.reasons : analyzed.reasons[k] = TopicReason

\* C18: when the meeting title is empty or made only of stop words and of
\* tokens of at most 2 characters, the keyword list is empty, the topic-match
\* rule triggers for no text, and classifying an item never raises.
C18_NoKeywordsNoTopicRule ==
    (\A w \in TitleWords(analyzer.meeting_topic) : w \in StopWordSet \/ Len(w) <= 2) =>
        /\ analyzer.topic_keywords = <<>>
        /\ pc \in {"classified", "raised"} => ~_matches_meeting_topic(analyzer, RawText)
        /\ ItemClassified => ~TopicRuleTriggered
        /\ pc # "raised"

\* C19: analyze_context leaves the analyzer and its input as they were, so
\* every later run on the same input returns a FilteredContext equal to the
\* first one.
C19_RerunReturnsEqualResult ==
    \A k \in DOMAIN returned :
        /\ returned[k].context = returned[1].context
        /\ returned[k].analyzer = returned[1].analyzer
        /\ returned[k].analyzer = analyzer
        /\ returned[k].result = returned[1].result

\* two runs on one context whose result holds an email, a document and
\* insight entries, health mentions among them
C19_Witness ==
    /\ Len(returned) >= 2
    /\ returned[2].result.emails # <<>>
    /\ returned[2].result.documents # <<>>
    /\ returned[2].result.health_mentions # <<>>
    /\ returned[2].result.action_items # <<>>

\* K: the set of distinct keywords extracted from the title
TitleKeywordSet == {analyzer.topic_keywords[i] : i \in DOMAIN analyzer.topic_keywords}

\* C20: with a non-empty keyword set K the topic-match rule triggers exactly
\* when at least min(2, |K|) distinct keywords of K occur in the text.
C20_TopicRuleCountsDistinctKeywords ==
    (ItemClassified /\ TitleKeywordSet # {}) =>
        LET occurring == {kw \in TitleKeywordSet : Contains(RawText, kw)}
        IN  TopicRuleTriggered <=>
                Cardinality(occurring) >= Min(2, Cardinality(TitleKeywordSet))

\* C21: for one included item the insight extractor appends at most one
\* entry to commitments and at most one entry to blockers.
C21_OneCommitmentOneBlockerPerItem ==
    Returned =>
        \A t \in Surfaced(InputVerdicts) :
            LET ins == _extract_insights(t[3])
            IN  Len(ins.commitments) <= 1 /\ Len(ins.blockers) <= 1

\* the concatenation of the sequences of ss, in order
RECURSIVE Flatten(_)
Flatten(ss) == IF ss = <<>> THEN <<>> ELSE ss[1] \o Flatten(Tail(ss))

\* the insights of a classified input item, none when it is excluded or
\* redacted
InsightsIfSurfaced(v) ==
    IF v.tier # TIER_4_EXCLUDE /\ ~(analyzer.has_external_attendees /\ v.is_sensitive)
    THEN _extract_insights(v)
    ELSE [l \in InsightLists |-> <<>>]

\* per input item, emails in input order and then chat messages in input
\* order, the insight entries the item contributes
InsightsInInputOrder ==
    LET ne == Len(context.emails)
        nm == Len(context.slack_messages)
    IN  SubSeq([i \in 1..ne |-> InsightsIfSurfaced(EmailVerdict(i))], 1, ne)
        \o SubSeq([i \in 1..nm |-> InsightsIfSurfaced(MessageVerdict(i))], 1, nm)

\* the position of the first occurrence of x in s
FirstAt(s, x) == Least({i \in DOMAIN s : s[i] = x})

\* r holds each entry of s once, ordered by first occurrence in s
IsFirstSeenOf(r, s) ==
    /\ {r[i] : i \in DOMAIN r} = {s[i] : i \in DOMAIN s}
    /\ \A a, b \in DOMAIN r : a < b => FirstAt(s, r[a]) < FirstAt(s, r[b])

DeduplicatedLists == {"action_items", "commitments", "blockers", "unanswered_questions"}

\* C22: until every item has been processed the insight lists hold the
\* entries of the items in input order (emails, then chat messages), nothing
\* removed; in the returned context each deduplicated list holds each of those
\* entries once, ordered by first occurrence in input order, whatever order
\* the sort gave the items.
C22_DedupAfterAllItemsFirstSeenWins ==
    (pc \in {"sort", "dedup", "done"}) =>
        LET per == InsightsInInputOrder
            all == [l \in InsightLists |-> Flatten([i \in DOMAIN per |-> per[i][l]])]
        IN  \A l \in InsightLists :
                IF pc = "done" /\ l \in DeduplicatedLists
                THEN IsFirstSeenOf(filtered[l], all[l])
                ELSE filtered[l] = all[l]

\* a returned run in which the sort put another email first than the input
\* had, two items contributed the same commitment, and the commitments start
\* with the entry of the first input email
C22_Witness ==
    /\ Returned
    /\ Len(filtered.emails) >= 2
    /\ filtered.emails[1].ref # 1
    /\ LET first == _extract_insights(EmailVerdict(1)).commitments
           every == Flatten([i \in DOMAIN context.emails |->
                             _extract_insights(EmailVerdict(i)).commitments])
       IN  /\ first # <<>>
           /\ Len(filtered.commitments) >= 2
           /\ filtered.commitments[1] = first[1]
           /\ Len(every) > Len(filtered.commitments)

\* C23: after every run items_included is the number of emails plus the
\* number of chat messages in the returned context, and items_excluded is the
\* number of input items whose tier is 4.
C23_CountersMatchOutput ==
    Returned =>
        /\ filtered.items_included = Len(filtered.emails) + Len(filtered.slack_messages)
        /\ filtered.items_excluded =
               Cardinality({t \in InputVerdicts : t[3].tier = TIER_4_EXCLUDE})

\* a returned run with an included item, a tier-4 item and a redacted item
C23_Witness ==
    /\ Returned
    /\ filtered.items_included >= 1
    /\ filtered.items_excluded >= 1
    /\ \E t \in InputVerdicts :
          /\ t[3].tier # TIER_4_EXCLUDE
          /\ analyzer.has_external_attendees
          /\ t[3].is_sensitive

\* C24: for a classified item aged 0 to 7 days the tier bounds the score: at
\* least 0.8 in tier 1, at least 0.7 in tier 2, from 0.15 to 0.5 in tier 3.
C24_TierBoundsScore ==
    (ItemClassified /\ RawDaysOld >= 0 /\ RawDaysOld <= 7) =>
        /\ analyzed.tier = TIER_1_CRITICAL => analyzed.relevance_score >= 800
        /\ analyzed.tier = TIER_2_DYNAMICS => analyzed.relevance_score >= 700
        /\ analyzed.tier = TIER_3_GENERAL =>
               analyzed.relevance_score >= 150 /\ analyzed.relevance_score <= 500

\* the item was dropped as sensitive: not tier 4, sensitive, and the meeting
\* has external attendees
DroppedAsSensitive(v) ==
    v.tier # TIER_4_EXCLUDE /\ analyzer.has_external_attendees /\ v.is_sensitive

\* the documents gathered from the items that were not dropped as sensitive
DocumentsOfKeptItems ==
    LET es == EmailsOf(context)
        ms == MessagesOf(context)
    IN  DocsOfEmails(SelectSeq(es, LAMBDA e : ~DroppedAsSensitive(_analyze_email(analyzer, e))))
        \o DocsOfMessages(SelectSeq(ms,
               LAMBDA m : ~DroppedAsSensitive(_analyze_slack_message(analyzer, m))))

\* the number of entries of s equal to x
Occurrences(s, x) == Cardinality({i \in DOMAIN s : s[i] = x})

\* C25: with external attendees every document of the returned context (and
\* with it every summary record) comes from an email or chat message that was
\* not dropped as sensitive: the output holds no document more often than
\* those items supply it.
C25_NoDocumentOfDroppedItem ==
    (Returned /\ analyzer.has_external_attendees) =>
        LET clean == DocumentsOfKeptItems
        IN  /\ \A k \in DOMAIN filtered.documents :
                  Occurrences(filtered.documents, filtered.documents[k])
                      <= Occurrences(clean, filtered.documents[k])
            /\ \A k \in DOMAIN filtered.document_summaries :
                  \E d \in DOMAIN clean :
                      clean[d].filename = filtered.document_summaries[k].filename

(***************************************************************************)
(* From the caller of a prep pipeline to the analyzer's external flag       *)
(***************************************************************************)
\* Optional[str]: None, or one string
None == <<>>
Some(x) == <<x>>

\* what a call that did not raise returned
Returns(value) == [returns |-> value]

\* s.split(sep)[-1]: what follows the last sep in s, all of s without one
LastSegment(s, sep) ==
    LET at == {i \in DOMAIN s : s[i] = sep}
    IN  IF at = {} THEN s
        ELSE SubSeq(s, (CHOOSE i \in at : \A k \in at : k <= i) + 1, Len(s))

\* not self.internal_domain: None and "" are both false
NoInternalDomain(internal_domain) ==
    internal_domain = None \/ internal_domain[1] = <<>>

\* ContextGatherer._identify_external_attendees: the e-mail addresses of the
\* attendees whose domain is not internal_domain, case ignored
_identify_external_attendees(internal_domain, attendees) ==
    IF NoInternalDomain(internal_domain) THEN <<>>
    ELSE LET outside == SelectSeq(attendees,
                 LAMBDA a : LowerStr(LastSegment(a.email, "@")) # LowerStr(internal_domain[1]))
         IN  [i \in DOMAIN outside |-> outside[i].email]

\* bound: the number of attendees of a meeting
MaxAttendees == 2

Attendee(email) == [email |-> email]

\* the domain of the organisation that runs the service
OrganisationDomain == <<"c","o","m","p","a","n","y",".","c","o","m">>

AttendeePool ==
    { Attendee(<<"a","n","a","@","c","o","m","p","a","n","y",".","c","o","m">>), Attendee(<<"B","o","@","C","o","m","p","a","n","y",".","C","O","M">>),
      Attendee(<<"p","a","t","@","c","l","i","e","n","t",".","e","x","a","m","p","l","e">>), Attendee(<<"k","i","m","@","n","o","t","c","o","m","p","a","n","y",".","c","o","m">>) }

AttendeeLists == SeqsUpTo(AttendeePool, MaxAttendees)

\* the internal_domain values a caller may hand to ContextGatherer
InternalDomains == {None, Some(<<>>), Some(<<"c","o","m","p","a","n","y",".","c","o","m">>), Some(<<"C","O","M","P","A","N","Y",".","c","o","m">>)}

\* bound: the emails and messages the searches of Gmail and Slack find for
\* one meeting, together
MaxGathered == 2

\* what the searches find, as keys: emails of one day and of another, with
\* a Date header that names no zone or one, and the messages of every kind
\* of timestamp
GmailFinds == SeqsUpTo({1, 2, 3, Len(EmailPool) + 1}, MaxGathered)
SlackFinds == SeqsUpTo(DOMAIN (SlackPool \o SearchedMessages), MaxGathered)
Finds == {f \in GmailFinds \X SlackFinds : Len(f[1]) + Len(f[2]) <= MaxGathered}

\* the entries of s at the positions keep, in order
Picked(s, keep) ==
    [p \in 1..Cardinality(keep) |->
        s[CHOOSE i \in keep : Cardinality({j \in keep : j <= i}) = p]]

\* list.sort(key=..., reverse=True) of a list shorter than 64, as CPython
\* does it; less[i][j] says that the key of s[i] is less than that of s[j].
\* The list is reversed; its leading run is found by comparing neighbours
\* and reversed when it descends; each later entry is put into the sorted
\* part at the place a binary search gives it; the list is reversed again.
SortedNewestFirst(s, less) ==
    LET n == Len(s)
        Reversed(p) == [i \in DOMAIN p |-> p[Len(p) + 1 - i]]
        start == [i \in 1..n |-> n + 1 - i]
        descends == n >= 2 /\ less[start[2]][start[1]]
        run == IF n < 2 THEN n
               ELSE CHOOSE k \in 2..n :
                       /\ \A i \in 3..k : less[start[i]][start[i - 1]] = descends
                       /\ k < n => less[start[k + 1]][start[k]] # descends
        counted == IF descends
                   THEN Reversed(SubSeq(start, 1, run)) \o SubSeq(start, run + 1, n)
                   ELSE start
        RECURSIVE Place(_, _, _, _)
        Place(p, pivot, l, r) ==
            IF l >= r THEN l
            ELSE LET mid == l + ((r - l) \div 2)
                 IN  IF less[pivot][p[mid]] THEN Place(p, pivot, l, mid)
                     ELSE Place(p, pivot, mid + 1, r)
        RECURSIVE Inserted(_, _)
        Inserted(p, at) ==
            IF at > n THEN p
            ELSE LET l == Place(p, p[at], 1, at)
                 IN  Inserted(SubSeq(p, 1, l - 1) \o << p[at] >> \o SubSeq(p, l, at - 1)
                                  \o SubSeq(p, at + 1, n), at + 1)
        sorted == Reversed(Inserted(counted, run + 1))
    IN  [i \in 1..n |-> s[sorted[i]]]

\* a.date < b.date of two dates that are both naive or both zone-aware
EarlierDate(a, b) ==
    \/ a.days_ago > b.days_ago
    \/ a.days_ago = b.days_ago /\ a.seconds > b.seconds

\* _gather_email_context: the emails found, one per id, sorted by date with
\* the newest first; comparing a naive date with a zone-aware one raises
\* TypeError
_gather_email_context(found) ==
    LET unique == Dedup(found)
        date(key) == EmailByKey(key).date
    IN  IF \E i, j \in DOMAIN unique : date(unique[i]).naive # date(unique[j]).naive
        THEN Raised("TypeError")
        ELSE Returns(SortedNewestFirst(unique,
                 [i \in DOMAIN unique |-> [j \in DOMAIN unique |->
                     EarlierDate(date(unique[i]), date(unique[j]))]]))

\* float(a.timestamp) < float(b.timestamp), for timestamps that are
\* numbers; nan is less than nothing and nothing is less than nan
OlderTimestamp(a, b) ==
    /\ a # NaN
    /\ b # NaN
    /\ \/ a.float.e17 < b.float.e17
       \/ a.float.e17 = b.float.e17 /\ a.float.seconds < b.float.seconds

\* _gather_slack_context: the messages found, one per timestamp, sorted by
\* float(m.timestamp) with the newest first; float() raises ValueError on a
\* timestamp that is no number
_gather_slack_context(found) ==
    LET stamp(key) == MessageByKey(key).timestamp
        unique == Picked(found, {i \in DOMAIN found :
                      \A j \in 1..(i - 1) : stamp(found[j]) # stamp(found[i])})
    IN  IF \E i \in DOMAIN unique : ~stamp(unique[i]).is_number
        THEN Raised("ValueError")
        ELSE Returns(SortedNewestFirst(unique,
                 [i \in DOMAIN unique |-> [j \in DOMAIN unique |->
                     OlderTimestamp(stamp(unique[i]), stamp(unique[j]))]]))

\* the clients a caller that looked up the user's tokens hands to the
\* gatherer: Gmail and Calendar with a Google token, Slack with a Slack token
ClientsOfTokens(google_token, slack_token) ==
    (IF google_token THEN {"gmail", "calendar"} ELSE {})
        \cup (IF slack_token THEN {"slack"} ELSE {})

PipelineInit ==
    /\ \E c \in {"scheduler", "api", "direct"}, a \in AttendeeLists :
          pipeline = [stage |-> "called", caller |-> c, attendees |-> a]
    /\ analyzer = NewContextAnalyzer(PoolMeetingTitle, <<>>)
    /\ context = NoContext
    /\ pc = "ready"
    /\ idx = 0
    /\ documents = <<>>
    /\ filtered = NewFilteredContext
    /\ extracted = <<>>
    /\ returned = <<>>
    /\ raw = NoItem
    /\ analyzed = NoItem
    /\ scheduler = [running |-> FALSE, _task |-> 0]
    /\ tasks = <<>>
    /\ caller = [at |-> "none"]
    /\ cycle = [at |-> "none"]
    /\ meeting_preps = {}
    /\ request = [at |-> "none"]
    /\ journal = <<>>

PipelineFrame ==
    UNCHANGED <<pc, idx, documents, filtered, extracted, returned, raw, analyzed,
                scheduler, tasks, caller, cycle, meeting_preps, request, journal>>

\* the gatherer is constructed: stage "gatherer", with its clients and its
\* internal_domain
WithGatherer(clients, internal_domain) ==
    /\ pipeline.stage = "called"
    /\ pipeline' = [stage |-> "gatherer", caller |-> pipeline.caller,
                    attendees |-> pipeline.attendees, clients |-> clients,
                    internal_domain |-> internal_domain, external_attendees |-> <<>>,
                    errors |-> <<>>]
    /\ UNCHANGED <<analyzer, context>>
    /\ PipelineFrame

\* PrepScheduler._generate_prep_for_meeting: ContextGatherer(...) without an
\* internal_domain argument, which defaults to None
SchedulerBuildsGatherer ==
    /\ pipeline.stage = "called"
    /\ pipeline.caller = "scheduler"
    /\ \E google_token, slack_token \in BOOLEAN :
          WithGatherer(ClientsOfTokens(google_token, slack_token), None)

\* generate_enhanced_prep, not in demo mode: ContextGatherer(..., internal_domain=None)
ApiBuildsGatherer ==
    /\ pipeline.stage = "called"
    /\ pipeline.caller = "api"
    /\ \E google_token, slack_token \in BOOLEAN :
          WithGatherer(ClientsOfTokens(google_token, slack_token), None)

\* any other caller of ContextGatherer(internal_domain=d)
DirectBuildsGatherer ==
    /\ pipeline.stage = "called"
    /\ pipeline.caller = "direct"
    /\ \E clients \in SUBSET {"gmail", "slack", "calendar"}, d \in InternalDomains :
          WithGatherer(clients, d)

\* gather_meeting_context up to "await asyncio.gather(*tasks, ...)": a new
\* MeetingContext, context.external_attendees =
\* self._identify_external_attendees(meeting.attendees), and one task for
\* each client.  With a task the call is suspended there (stage
\* "gathering"); without any the await returns at once and the call returns
\* the context as it is.
GatherMeetingContext ==
    /\ pipeline.stage = "gatherer"
    /\ context' = NoContext
    /\ pipeline' = [pipeline EXCEPT
          !.stage = IF pipeline.clients = {} THEN "context" ELSE "gathering",
          !.external_attendees =
              _identify_external_attendees(pipeline.internal_domain, pipeline.attendees)]
    /\ UNCHANGED analyzer
    /\ PipelineFrame

\* gather_meeting_context from the return of asyncio.gather: the list of a
\* task that returned a non-empty one becomes context.emails or
\* context.slack_messages, the exception of a task that raised goes to
\* context.errors; the meeting has no calendar attachment
GatherReturns ==
    /\ pipeline.stage = "gathering"
    /\ \E found \in {f \in Finds :
                        /\ "gmail" \notin pipeline.clients => f[1] = <<>>
                        /\ "slack" \notin pipeline.clients => f[2] = <<>>} :
          LET emails == _gather_email_context(found[1])
              slack_messages == _gather_slack_context(found[2])
          IN  /\ context' = MeetingContextOf(
                     IF IsRaised(emails) THEN <<>> ELSE emails.returns,
                     IF IsRaised(slack_messages) THEN <<>> ELSE slack_messages.returns)
              /\ pipeline' = [pipeline EXCEPT
                     !.stage = "context",
                     !.errors = (IF IsRaised(emails) THEN <<emails.raised>> ELSE <<>>)
                                \o (IF IsRaised(slack_messages)
                                    THEN <<slack_messages.raised>> ELSE <<>>)]
    /\ UNCHANGED analyzer
    /\ PipelineFrame

\* analyze_meeting_context: analyzer = ContextAnalyzer(meeting_topic, ...,
\* external_attendees=context.external_attendees, ...), then
\* analyzer.analyze_context(context) is entered on the gathered context; the
\* steps of analyze_context follow, and its return ends the call
AnalyzeMeetingContext ==
    /\ pipeline.stage = "context"
    /\ pc = "ready"
    /\ analyzer' = NewContextAnalyzer(PoolMeetingTitle, pipeline.external_attendees)
    /\ pipeline' = [pipeline EXCEPT !.stage = "analyzer"]
    /\ pc' = "emails"
    /\ idx' = 1
    /\ documents' = <<>>
    /\ filtered' = FreshFilteredContext(filtered)
    /\ extracted' = <<>>
    /\ UNCHANGED <<context, returned, raw, analyzed,
                   scheduler, tasks, caller, cycle, meeting_preps, request, journal>>

PipelineNext ==
    \/ SchedulerBuildsGatherer
    \/ ApiBuildsGatherer
    \/ DirectBuildsGatherer
    \/ GatherMeetingContext
    \/ GatherReturns
    \/ AnalyzeMeetingContext
    \/ AnalyzeEmailStep
    \/ EmailsDone
    \/ AnalyzeSlackStep
    \/ SlackDone
    \/ ProcessDocumentStep
    \/ DocumentsDone
    \/ SortStep
    \/ DedupStep

PipelineSpec == PipelineInit /\ [][PipelineNext]_vars

(***************************************************************************)
(* Properties of the pipelines around the analyzer                          *)
(***************************************************************************)
\* the attendee's address is not in the organisation's domain
OutsideOrganisation(a) ==
    LowerStr(LastSegment(a.email, "@")) # OrganisationDomain

\* C26: in the scheduler and API pipelines a meeting with an attendee from
\* outside the organisation reaches the analyzer with has_external_attendees
\* true; _identify_external_attendees returns the attendees whose domain
\* differs from internal_domain, case ignored, and none without a domain, and
\* then the analysis redacts nothing: every item it counted is included or
\* excluded.
C26_ExternalMeetingsReachAnalyzerFlagged ==
    /\ (/\ pipeline.stage = "analyzer"
        /\ pipeline.caller \in {"scheduler", "api"}
        /\ \E i \in DOMAIN pipeline.attendees : OutsideOrganisation(pipeline.attendees[i]))
           => analyzer.has_external_attendees
    /\ pipeline.stage \in {"gathering", "context", "analyzer"} =>
           LET own == pipeline.internal_domain
               differing == SelectSeq(pipeline.attendees,
                               LAMBDA a : LowerStr(LastSegment(a.email, "@")) # LowerStr(own[1]))
           IN  IF own = None \/ own = Some(<<>>)
               THEN pipeline.external_attendees = <<>>
               ELSE pipeline.external_attendees = [i \in DOMAIN differing |-> differing[i].email]
    /\ (/\ pipeline.stage = "analyzer"
        /\ pc = "done"
        /\ NoInternalDomain(pipeline.internal_domain))
           => filtered.items_included + filtered.items_excluded
                  = filtered.total_items_analyzed

(***************************************************************************)
(* PrepScheduler: start(), stop() and the task that runs _run_loop          *)
(***************************************************************************)
\* bound: the number of start() and stop() calls made on one scheduler
MaxCalls == 4

\* asyncio.create_task(self._run_loop()): a task that has not run yet
NewTask == [at |-> "created", must_cancel |-> FALSE, cycles_raised |-> 0]

\* a task whose coroutine has returned or has been cancelled
TaskDone(t) == t.at \in {"returned", "cancelled"}

\* the tasks of _run_loop that have not finished
ActiveTasks == {i \in DOMAIN tasks : ~TaskDone(tasks[i])}

\* one scheduler, as constructed; its caller awaits one call after another
LifecycleInit ==
    /\ scheduler = [running |-> FALSE, _task |-> 0]
    /\ tasks = <<>>
    /\ caller = [at |-> "idle", calls |-> 0, last |-> "none"]
    /\ journal = <<>>
    /\ pipeline = [stage |-> "none"]
    /\ cycle = [at |-> "none"]
    /\ meeting_preps = {}
    /\ request = [at |-> "none"]
    /\ analyzer = NewContextAnalyzer(PoolMeetingTitle, <<>>)
    /\ context = NoContext
    /\ pc = "ready"
    /\ idx = 0
    /\ documents = <<>>
    /\ filtered = NewFilteredContext
    /\ extracted = <<>>
    /\ returned = <<>>
    /\ raw = NoItem
    /\ analyzed = NoItem

LifecycleFrame ==
    UNCHANGED <<analysisVars, pipeline, cycle, meeting_preps, request>>

\* start() with the test of self.running left out
StartWithoutRunningCheck ==
    /\ caller.at = "idle"
    /\ caller.calls < MaxCalls
    /\ scheduler' = [running |-> TRUE, _task |-> Len(tasks) + 1]
    /\ tasks' = Append(tasks, NewTask)
    /\ journal' = Append(journal, [call |-> "start", was_running |-> scheduler.running,
                                   tasks_before |-> Len(tasks), tasks_after |-> Len(tasks'),
                                   task_before |-> scheduler._task,
                                   task_after |-> scheduler'._task])
    /\ caller' = [at |-> "idle", calls |-> caller.calls + 1, last |-> "start"]
    /\ LifecycleFrame

\* PrepScheduler.start: returns at once when running, else sets running and
\* creates the task
Start ==
    /\ caller.at = "idle"
    /\ caller.calls < MaxCalls
    /\ IF scheduler.running
       THEN UNCHANGED <<scheduler, tasks>>
       ELSE /\ scheduler' = [running |-> TRUE, _task |-> Len(tasks) + 1]
            /\ tasks' = Append(tasks, NewTask)
    /\ journal' = Append(journal, [call |-> "start", was_running |-> scheduler.running,
                                   tasks_before |-> Len(tasks), tasks_after |-> Len(tasks'),
                                   task_before |-> scheduler._task,
                                   task_after |-> scheduler'._task])
    /\ caller' = [at |-> "idle", calls |-> caller.calls + 1, last |-> "start"]
    /\ LifecycleFrame

\* Task.cancel(): nothing for a finished task, else a cancellation request
Cancel(t) == IF TaskDone(t) THEN t ELSE [t EXCEPT !.must_cancel = TRUE]

\* PrepScheduler.stop up to its await: running = False, and with a task,
\* cancel it and await it; without one the call returns
StopCall ==
    /\ caller.at = "idle"
    /\ caller.calls < MaxCalls
    /\ scheduler' = [scheduler EXCEPT !.running = FALSE]
    /\ IF scheduler._task # 0
       THEN /\ tasks' = [tasks EXCEPT ![scheduler._task] = Cancel(@)]
            /\ caller' = [at |-> "awaiting", calls |-> caller.calls + 1, last |-> "stop"]
       ELSE /\ UNCHANGED tasks
            /\ caller' = [at |-> "idle", calls |-> caller.calls + 1, last |-> "stop"]
    /\ UNCHANGED journal
    /\ LifecycleFrame

\* PrepScheduler.stop after its await: the awaited task has finished, its
\* CancelledError is caught, the call returns
StopReturn ==
    /\ caller.at = "awaiting"
    /\ TaskDone(tasks[scheduler._task])
    /\ caller' = [caller EXCEPT !.at = "idle"]
    /\ UNCHANGED <<scheduler, tasks, journal>>
    /\ LifecycleFrame

\* while self.running: the test of _run_loop, made by task i when it first
\* runs and each time its sleep ends
LoopTest(i) ==
    /\ tasks[i].at \in {"created", "sleeping"}
    /\ ~tasks[i].must_cancel
    /\ tasks' = [tasks EXCEPT ![i].at = IF scheduler.running THEN "checking" ELSE "returned"]
    /\ UNCHANGED <<scheduler, caller, journal>>
    /\ LifecycleFrame

\* await self._check_and_generate() ends, by returning or by raising an
\* Exception that _run_loop logs; the task sleeps
CheckEnds(i) ==
    /\ tasks[i].at = "checking"
    /\ ~tasks[i].must_cancel
    /\ \E raised \in BOOLEAN :
          tasks' = [tasks EXCEPT ![i].at = "sleeping",
                                 ![i].cycles_raised = IF raised THEN 1 ELSE @]
    /\ UNCHANGED <<scheduler, caller, journal>>
    /\ LifecycleFrame

\* the cancellation reaches the task at the await it is suspended in, or
\* before its first step; CancelledError is no Exception, so _run_loop ends
TaskCancelled(i) ==
    /\ ~TaskDone(tasks[i])
    /\ tasks[i].must_cancel
    /\ tasks' = [tasks EXCEPT ![i].at = "cancelled"]
    /\ UNCHANGED <<scheduler, caller, journal>>
    /\ LifecycleFrame

LifecycleNext ==
    \/ Start
    \/ StopCall
    \/ StopReturn
    \/ \E i \in DOMAIN tasks : LoopTest(i)
    \/ \E i \in DOMAIN tasks : CheckEnds(i)
    \/ \E i \in DOMAIN tasks : TaskCancelled(i)

LifecycleSpec == LifecycleInit /\ [][LifecycleNext]_vars

\* C27: whatever start() and stop() calls were made, at most one task of
\* _run_loop is unfinished and it is the scheduler's _task; a start() made
\* while running created no task and left _task alone; and when the last
\* call was a stop() that has returned, running is false and the task, if
\* there is one, has been cancelled and has finished.
C27_AtMostOneLoopTask ==
    /\ Cardinality(ActiveTasks) <= 1
    /\ ActiveTasks \subseteq {scheduler._task}
    /\ \A k \in DOMAIN journal :
          journal[k].call = "start" /\ journal[k].was_running =>
             /\ journal[k].tasks_after = journal[k].tasks_before
             /\ journal[k].task_after = journal[k].task_before
    /\ caller.at = "idle" /\ caller.last = "stop" =>
          /\ ~scheduler.running
          /\ scheduler._task # 0 => tasks[scheduler._task].at = "cancelled"

\* a second start() was made while running, and a later stop() has returned
\* with a task that had been checking or sleeping
C27_Witness ==
    /\ \E k \in DOMAIN journal : journal[k].call = "start" /\ journal[k].was_running
    /\ caller.at = "idle" /\ caller.last = "stop"
    /\ scheduler._task # 0
    /\ tasks[scheduler._task].at = "cancelled"
    /\ Len(tasks) = 1

(***************************************************************************)
(* The prep table, the scheduler's check cycle and the generate-prep API    *)
(***************************************************************************)
\* bound: the check cycles one scheduler runs
MaxCycles == 2

\* bound: the generate-prep requests made to the API
MaxRequests == 1

\* get_all_users_with_google(): list(set(...)), the users in either order
UserOrders == { <<"u1", "u2">>, <<"u2", "u1">> }

\* calendar.get_meetings_needing_prep() of each user; both users attend m1
MeetingsNeedingPrep(user_id) ==
    IF user_id = "u1" THEN <<"m1", "m2">> ELSE <<"m1">>

\* EnhancedPrepDocument.to_dict() of a generated prep: prep_markdown is the
\* text of _generate_markdown
GeneratedPrep == [prep_markdown |-> "# Meeting Prep", warnings |-> <<>>]

\* EnhancedPrepDocument.to_dict() of _generate_fallback: prep_markdown keeps
\* its default, the empty string
FallbackPrep ==
    [prep_markdown |-> "",
     warnings |-> <<"AI generation failed - showing basic prep document">>]

\* PrepDocument.model_dump(mode="json") of the legacy endpoint's generator:
\* the fields of models.schemas.PrepDocument, prep_markdown not among them
LegacyPrep == [key_points |-> <<>>, suggested_agenda |-> <<>>]

\* the rows of table meeting_preps that hold (user_id, meeting_id); the
\* table is a set of rows
RowsOf(table, user_id, meeting_id) ==
    {row \in table : row.user_id = user_id /\ row.meeting_id = meeting_id}

\* store_meeting_prep: upsert on (user_id, meeting_id)
store_meeting_prep(table, user_id, meeting_id, prep_document) ==
    (table \ RowsOf(table, user_id, meeting_id))
        \cup {[user_id |-> user_id, meeting_id |-> meeting_id,
                prep_document |-> prep_document]}

\* get_meeting_prep: the prep_document of the matching row, or None
get_meeting_prep(table, user_id, meeting_id) ==
    LET rows == RowsOf(table, user_id, meeting_id)
    IN  IF rows = {} THEN None
        ELSE Some((CHOOSE row \in rows : TRUE).prep_document)

\* scheduler.py "if existing" with the test left out
ExistingIgnored(existing) == FALSE

\* "if existing": None is false, a stored document (a dict with keys) is true
Truthy(existing) == existing # None

\* main.py "cached and cached.get("prep_markdown")": a stored document whose
\* prep_markdown is a non-empty string
CachedWithMarkdown(cached) ==
    /\ Truthy(cached)
    /\ "prep_markdown" \in DOMAIN cached[1]
    /\ cached[1].prep_markdown # ""

\* PrepDocument(**cached): pydantic accepts a dict that has the required
\* fields (key_points among them) and raises ValidationError on any other
ValidatesAsPrepDocument(cached) == "key_points" \in DOMAIN cached[1]

StoredPairs(table) == { <<row.user_id, row.meeting_id>> : row \in table }

Event(ev, user_id, meeting_id) == [ev |-> ev, user |-> user_id, meeting |-> meeting_id]

\* get_meeting_prep was called for a meeting: how the call ended, and
\* whether the table held a prep for the pair at that time
Checked(how, user_id, meeting_id) ==
    [ev |-> how, user |-> user_id, meeting |-> meeting_id,
     had_prep |-> RowsOf(meeting_preps, user_id, meeting_id) # {}]

CycleAt(at) == [cycle EXCEPT !.at = at]

\* The scheduler process, as "python scheduler.py" starts it (start() has
\* set running and created the task of _run_loop, which has not run yet) or
\* as "python scheduler.py --once" does (a PrepScheduler that is never
\* started: running false, no task); an empty table
ServiceInit ==
    /\ \/ /\ scheduler = [running |-> TRUE, _task |-> 1]
          /\ tasks = << NewTask >>
          /\ caller = [at |-> "idle", calls |-> 1, last |-> "start"]
       \/ /\ scheduler = [running |-> FALSE, _task |-> 0]
          /\ tasks = << >>
          /\ caller = [at |-> "idle", calls |-> 0, last |-> "run_once"]
    /\ cycle = [at |-> "idle", n |-> 0, users |-> <<>>, user |-> "", meetings |-> <<>>,
                meeting |-> ""]
    /\ meeting_preps = {}
    /\ request = [at |-> "none", n |-> 0, endpoint |-> "none", force_regenerate |-> FALSE,
                  last |-> "none"]
    /\ journal = <<>>
    /\ pipeline = [stage |-> "none"]
    /\ analyzer = NewContextAnalyzer(PoolMeetingTitle, <<>>)
    /\ context = NoContext
    /\ pc = "ready"
    /\ idx = 0
    /\ documents = <<>>
    /\ filtered = NewFilteredContext
    /\ extracted = <<>>
    /\ returned = <<>>
    /\ raw = NoItem
    /\ analyzed = NoItem

ServiceFrame == UNCHANGED <<analysisVars, pipeline, scheduler, caller>>

\* the loop task, where there is one, moves to position at
LoopTaskAt(at) == IF tasks = << >> THEN tasks ELSE [tasks EXCEPT ![1].at = at]

\* _check_and_generate returns (it catches every Exception itself); in
\* _run_loop the task then sleeps for the check interval
CycleEnds ==
    /\ cycle' = [cycle EXCEPT !.at = "idle", !.n = @ + 1, !.users = <<>>, !.user = "",
                              !.meetings = <<>>, !.meeting = ""]
    /\ tasks' = LoopTaskAt("sleeping")

\* _check_and_generate asks for the users: on an exception it logs and
\* returns
CheckAndGenerateBegins ==
    /\ cycle.at = "idle"
    /\ \E users \in {Returns(order) : order \in UserOrders}
                      \cup {Raised("get_all_users_with_google")} :
          IF IsRaised(users)
          THEN /\ CycleEnds
               /\ journal' = << [ev |-> "cycle", stored |-> StoredPairs(meeting_preps)] >>
          ELSE /\ cycle' = [cycle EXCEPT !.at = "users", !.users = users.returns]
               /\ tasks' = LoopTaskAt("checking")
               /\ journal' = << [ev |-> "cycle", stored |-> StoredPairs(meeting_preps)] >>
    /\ UNCHANGED <<meeting_preps, request>>
    /\ ServiceFrame

\* while self.running: the task of _run_loop, when it first runs or when
\* its sleep has ended, finds running true and calls _check_and_generate
CycleBegins ==
    /\ cycle.n < MaxCycles
    /\ scheduler.running
    /\ tasks[scheduler._task].at \in {"created", "sleeping"}
    /\ CheckAndGenerateBegins

\* run_once(): PrepScheduler() and _check_and_generate() on it, once; the
\* scheduler is not started
RunOnce ==
    /\ cycle.n = 0
    /\ ~scheduler.running
    /\ scheduler._task = 0
    /\ CheckAndGenerateBegins

\* for user_id in users: _process_user up to its loop over the meetings; a
\* raising get_oauth_token is caught by the user loop, a missing token and a
\* raising calendar make _process_user return
NextUser ==
    /\ cycle.at = "users"
    /\ IF cycle.users = <<>>
       THEN /\ CycleEnds
            /\ UNCHANGED journal
       ELSE LET user_id == Head(cycle.users)
            IN  \E outcome \in {"token raises", "no token", "calendar raises", "listed"} :
                   /\ cycle' = [cycle EXCEPT
                          !.users = Tail(@),
                          !.user = user_id,
                          !.at = IF outcome = "listed" THEN "meetings" ELSE "users",
                          !.meetings = IF outcome = "listed"
                                       THEN MeetingsNeedingPrep(user_id) ELSE <<>>]
                   /\ journal' = journal \o << Event("user", user_id, "") >> \o
                          (IF outcome = "listed"
                           THEN << Event("listed", user_id, "") >> ELSE << >>)
                   /\ UNCHANGED tasks
    /\ UNCHANGED <<meeting_preps, request>>
    /\ ServiceFrame

\* for meeting in meetings: existing = await get_meeting_prep(...), outside
\* any try of _process_user, so that its exception ends the user; "if
\* existing: continue"; otherwise _generate_prep_for_meeting is entered and
\* runs up to its await of gather_meeting_context, where other work goes on
NextMeeting ==
    /\ cycle.at = "meetings"
    /\ IF cycle.meetings = <<>>
       THEN /\ cycle' = CycleAt("users")
            /\ UNCHANGED journal
       ELSE LET meeting_id == Head(cycle.meetings)
            IN  \E existing \in {Returns(get_meeting_prep(meeting_preps, cycle.user,
                                                          meeting_id)),
                                 Raised("get_meeting_prep")} :
                   IF IsRaised(existing)
                   THEN /\ cycle' = [cycle EXCEPT !.at = "users", !.meetings = <<>>]
                        /\ journal' = Append(journal,
                               Checked("checked: raises", cycle.user, meeting_id))
                   ELSE IF Truthy(existing.returns)
                   THEN /\ cycle' = [cycle EXCEPT !.meetings = Tail(@)]
                        /\ journal' = Append(journal,
                               Checked("checked: existing", cycle.user, meeting_id))
                   ELSE /\ cycle' = [cycle EXCEPT !.at = "gathering",
                                                  !.meetings = Tail(@),
                                                  !.meeting = meeting_id]
                        /\ journal' = Append(journal,
                               Checked("checked: missing", cycle.user, meeting_id))
    /\ UNCHANGED <<meeting_preps, request, tasks>>
    /\ ServiceFrame

\* _generate_prep_for_meeting from the return of gather_meeting_context to
\* its end, with nothing in between: gathering may raise, the generator
\* returns a prep or, when the AI call fails, the fallback, and
\* store_meeting_prep(user_id, meeting.id, prep.to_dict()) upserts it or
\* raises; the meeting's try catches every exception
Generate ==
    /\ cycle.at = "gathering"
    /\ \E prep \in {GeneratedPrep, FallbackPrep, Raised("gather_meeting_context")} :
          IF IsRaised(prep)
          THEN UNCHANGED <<meeting_preps, journal>>
          ELSE \E store_raises \in BOOLEAN :
                  IF store_raises
                  THEN /\ UNCHANGED meeting_preps
                       /\ journal' = Append(journal,
                              Event("generated", cycle.user, cycle.meeting))
                  ELSE /\ meeting_preps' = store_meeting_prep(meeting_preps, cycle.user,
                                                              cycle.meeting, prep)
                       /\ journal' = journal \o
                              << Event("generated", cycle.user, cycle.meeting),
                                 Event("stored", cycle.user, cycle.meeting) >>
    /\ cycle' = [cycle EXCEPT !.at = "meetings", !.meeting = ""]
    /\ UNCHANGED <<request, tasks>>
    /\ ServiceFrame

\* the request has been answered: what remains is the number of requests
\* and how the last one ended
Answered(endpoint, force_regenerate, how) ==
    [at |-> "none", n |-> request.n, endpoint |-> endpoint,
     force_regenerate |-> force_regenerate, last |-> how]

\* a request of user u1 that has passed the cache and waits for its context
Gathering(endpoint, meeting_id, force_regenerate, cached) ==
    [at |-> "gathering", n |-> request.n + 1, endpoint |-> endpoint, user_id |-> "u1",
     meeting_id |-> meeting_id, force_regenerate |-> force_regenerate, cached |-> cached]

\* "Get meeting details" of either endpoint: HTTPException without a token
\* or a meeting, else the request goes on
MeetingDetails(endpoint, meeting_id, force_regenerate, cached) ==
    \E found \in BOOLEAN :
       request' = IF found THEN Gathering(endpoint, meeting_id, force_regenerate, cached)
                  ELSE [Answered(endpoint, force_regenerate, "failed") EXCEPT !.n = @ + 1]

\* generate_enhanced_prep, not in demo mode, up to its await of
\* gather_meeting_context: the cache is read unless force_regenerate, and a
\* cached document with prep_markdown is returned (with get_meeting, which
\* may raise); then "Get meeting details"
ApiCall ==
    /\ request.at = "none"
    /\ request.n < MaxRequests
    /\ \E meeting_id \in {"m1", "m2"}, force_regenerate \in BOOLEAN :
          IF force_regenerate
          THEN MeetingDetails("enhanced", meeting_id, TRUE, None)
          ELSE \E cached \in {Returns(get_meeting_prep(meeting_preps, "u1", meeting_id)),
                              Raised("get_meeting_prep")} :
                  IF IsRaised(cached)
                  THEN request' = [Answered("enhanced", FALSE, "failed") EXCEPT !.n = @ + 1]
                  ELSE IF CachedWithMarkdown(cached.returns)
                  THEN \E how \in {"cached", "failed"} :
                          request' = [Answered("enhanced", FALSE, how) EXCEPT !.n = @ + 1]
                  ELSE MeetingDetails("enhanced", meeting_id, FALSE, cached.returns)
    /\ UNCHANGED <<meeting_preps, cycle, journal, tasks>>
    /\ ServiceFrame

\* generate_enhanced_prep from the return of gather_meeting_context to its
\* end, with nothing in between: a failing gatherer, or the prep, or the
\* fallback, is generated and "Cache the result" upserts it or raises
ApiGenerate ==
    /\ request.at = "gathering"
    /\ request.endpoint = "enhanced"
    /\ \E prep \in {GeneratedPrep, FallbackPrep, Raised("gather_meeting_context")} :
          IF IsRaised(prep)
          THEN /\ request' = Answered("enhanced", request.force_regenerate, "failed")
               /\ UNCHANGED meeting_preps
          ELSE \E store_raises \in BOOLEAN :
                  IF store_raises
                  THEN /\ request' = Answered("enhanced", request.force_regenerate, "failed")
                       /\ UNCHANGED meeting_preps
                  ELSE /\ request' = Answered("enhanced", request.force_regenerate,
                                               "regenerated")
                       /\ meeting_preps' = store_meeting_prep(meeting_preps,
                              request.user_id, request.meeting_id, prep)
    /\ UNCHANGED <<cycle, journal, tasks>>
    /\ ServiceFrame

\* generate_prep_document (POST /prep/generate), not in demo mode, up to its
\* first await after "Get meeting details": unless force_regenerate the
\* cache is read, and any cached document is returned, one with
\* prep_markdown converted and any other through PrepDocument(**cached)
LegacyCall ==
    /\ request.at = "none"
    /\ request.n < MaxRequests
    /\ \E meeting_id \in {"m1", "m2"}, force_regenerate \in BOOLEAN :
          IF force_regenerate
          THEN MeetingDetails("legacy", meeting_id, TRUE, None)
          ELSE \E cached \in {Returns(get_meeting_prep(meeting_preps, "u1", meeting_id)),
                              Raised("get_meeting_prep")} :
                  IF IsRaised(cached)
                  THEN request' = [Answered("legacy", FALSE, "failed") EXCEPT !.n = @ + 1]
                  ELSE IF Truthy(cached.returns)
                  THEN \E how \in {"cached", "failed"} :
                          /\ how = "cached" =>
                                \/ CachedWithMarkdown(cached.returns)
                                \/ ValidatesAsPrepDocument(cached.returns)
                          /\ request' = [Answered("legacy", FALSE, how) EXCEPT !.n = @ + 1]
                  ELSE MeetingDetails("legacy", meeting_id, FALSE, cached.returns)
    /\ UNCHANGED <<meeting_preps, cycle, journal, tasks>>
    /\ ServiceFrame

\* generate_prep_document from its gathering to its end: the searches or
\* the generator raise, or store_meeting_prep upserts
\* prep_document.model_dump(mode="json") or raises
LegacyGenerate ==
    /\ request.at = "gathering"
    /\ request.endpoint = "legacy"
    /\ \E how \in {"failed", "regenerated"} :
          /\ request' = Answered("legacy", request.force_regenerate, how)
          /\ meeting_preps' = IF how = "failed" THEN meeting_preps
                              ELSE store_meeting_prep(meeting_preps, request.user_id,
                                                      request.meeting_id, LegacyPrep)
    /\ UNCHANGED <<cycle, journal, tasks>>
    /\ ServiceFrame

ServiceNext ==
    \/ CycleBegins
    \/ RunOnce
    \/ NextUser
    \/ NextMeeting
    \/ Generate
    \/ ApiCall
    \/ ApiGenerate
    \/ LegacyCall
    \/ LegacyGenerate

ServiceSpec == ServiceInit /\ [][ServiceNext]_vars


(***************************************************************************)
(* Claims about the scheduler's cycles and the generate-prep API            *)
(***************************************************************************)
\* the entries of the cycle's journal that say get_meeting_prep was called
CheckEvents == {"checked: raises", "checked: existing", "checked: missing"}

\* the entries that say a prep was generated, or stored, by the scheduler
GenerationEvents == {"generated", "stored"}

SamePair(e, f) == e.user = f.user /\ e.meeting = f.meeting

\* C28: in a check cycle, a meeting whose prep was in the table when the
\* scheduler looked it up is followed by no generation and no store for that
\* pair; and no cycle generates or stores a prep for a pair that was in the
\* table when the cycle began, whoever had stored it, the scheduler in an
\* earlier cycle or the API.
C28_StoredPrepsNeverRegeneratedByScheduler ==
    /\ \A k \in DOMAIN journal :
          journal[k].ev \in CheckEvents /\ journal[k].had_prep =>
             \A j \in DOMAIN journal :
                j > k /\ journal[j].ev \in GenerationEvents => ~SamePair(journal[j], journal[k])
    /\ \A k \in DOMAIN journal :
          journal[k].ev \in GenerationEvents =>
             <<journal[k].user, journal[k].meeting>> \notin journal[1].stored
    /\ cycle.at = "gathering" =>
          <<cycle.user, cycle.meeting>> \notin journal[1].stored

\* a later cycle looks up a pair that an earlier cycle or the API stored,
\* skips it, and has generated and stored the prep of another meeting
C28_Witness ==
    /\ cycle.n >= 1
    /\ \E k \in DOMAIN journal :
          /\ journal[k].ev = "checked: existing"
          /\ <<journal[k].user, journal[k].meeting>> \in journal[1].stored
    /\ \E k \in DOMAIN journal : journal[k].ev = "stored"

\* C29: when a cycle that got its users has ended, every user was processed
\* and, for every user whose meetings were listed, every meeting was looked
\* up, whatever failed on the way; and where running is true the loop task
\* sleeps, so that another cycle follows.
C29_FailuresSkipNothingElse ==
    cycle.at = "idle" /\ Len(journal) > 1 =>
       /\ \A u \in {"u1", "u2"} : \E k \in DOMAIN journal : journal[k] = Event("user", u, "")
       /\ \A k \in DOMAIN journal :
             journal[k].ev = "listed" =>
                \A i \in DOMAIN MeetingsNeedingPrep(journal[k].user) :
                   \E j \in DOMAIN journal :
                      /\ journal[j].ev \in CheckEvents
                      /\ journal[j].user = journal[k].user
                      /\ journal[j].meeting = MeetingsNeedingPrep(journal[k].user)[i]
       /\ scheduler.running => tasks[scheduler._task].at = "sleeping"

\* C30: a generate_enhanced_prep request without force_regenerate goes on
\* to gather and generate only when the table held no prep for the pair; and
\* one with force_regenerate that was answered without an error regenerated
\* and stored the prep.
C30_StoredPrepAnswersUnforcedRequest ==
    /\ (/\ request.at = "gathering"
        /\ request.endpoint = "enhanced"
        /\ ~request.force_regenerate) => request.cached = None
    /\ (/\ request.at = "none"
        /\ request.endpoint = "enhanced"
        /\ request.force_regenerate
        /\ request.last # "failed") => request.last = "regenerated"
=============================================================================
